---- MODULE Spec2Model ----
(***************************************************************************)
(* Build-and-deploy lifecycle of one KubejobRuntime function               *)
(* (mlrun/runtimes/kubejob.py): is_deployed, with_source_archive, deploy   *)
(* and the _build_watch log loop, together with the build backend the      *)
(* function talks to through db.remote_builder / db.get_builder_status.    *)
(*                                                                         *)
(* Log text is a sequence of bytes.  The i-th byte of a build log is the   *)
(* number i, so a byte printed twice or left out shows in the printed      *)
(* sequence.  The newline written by the bare print() is the byte NL.      *)
(***************************************************************************)
EXTENDS Integers, Sequences, FiniteSets, TLC

\* ---------------------------------------------------------------- bounds
MaxLog == 2
IterCap == 2
MaxPath == 4

\* ---------------------------------------------------------------- values
NL == 0
\* Python's None where a path is expected.  A path is a sequence of
\* one-character strings, so None is no path.
None == <<"None">>

\* Python's truth value of an optional string.
Truthy(x) == x # None /\ x # <<>>

OldImage == "repo/func:old"
BaseImage == "custom/base"
BuiltImage == "repo/func:built"
BackendBase == "mlrun/mlrun"
RegistryBase == "registry/mlrun/base"
BackendDir == <<"/", "h">>
SourceUrl == "git://github.com/mlrun/something.git"
RelWorkdir == <<".", "/", "s">>
TargetDir == <<"/", "r">>

WatchStates == {"pending", "running"}
FailureKinds == {"RunDBError", "OSError"}

VARIABLES
    \* the function object (self.spec / self.status)
    image, base_image, state, clone_target_dir,
    source, workdir, load_source_on_run, default_handler,
    commands, remote, build_with_mlrun, build_requirements, build_extra,
    \* the call in progress
    pc, op, argWatch, watch, is_kfp, show_on_failure, nbuild, failure,
    ready, offset, ret, arg_with_mlrun, sent_with_mlrun, info_logged,
    \* what the caller and the backend saw of the call (history)
    printed, fetched, req, hadBase, probe, repeat,
    \* the build backend
    bstate, bimage, blen,
    \* a run submission (_run): the run object, the call, the pod backend
    status_text, run_state, iteration, stored,
    rpc, rret, working_dir, ncreate, text_before,
    create_exc, pod_name, pod_phase,
    \* the env lists: the function's, the run's injected one, the pod's
    spec_env, extra_env, pod_env,
    \* two functions side by side: the function objects, the backend's build
    \* records, the function the last step belonged to
    fns, builds, actor,
    \* two callers of one function: each caller's call in progress
    calls,
    \* a call of the default packager: its inputs and its outcome
    pk_op, pk_artifact_type, pk_arguments, pk_warned, pk_result, pk_passed

fnVars == <<image, base_image, state, clone_target_dir, source, workdir,
            load_source_on_run, default_handler, commands, remote,
            build_with_mlrun, build_requirements, build_extra>>
callVars == <<argWatch, watch, is_kfp, show_on_failure, hadBase, arg_with_mlrun,
              sent_with_mlrun, info_logged>>
argVars == <<callVars, nbuild, failure>>
logVars == <<offset, printed, fetched, req>>
beVars == <<bstate, bimage, blen>>
buildVars == <<fnVars, pc, op, argVars, ready, ret, logVars, probe, repeat, beVars>>
runVars == <<status_text, run_state, iteration, stored, rpc, rret, working_dir, ncreate,
             text_before, create_exc, pod_name, pod_phase, spec_env, extra_env,
             pod_env>>
envVars == <<spec_env, extra_env, pod_env>>
twoVars == <<fns, builds, actor, calls>>
packVars == <<pk_op, pk_artifact_type, pk_arguments, pk_warned, pk_result, pk_passed>>
\* What the operations on the one function leave alone, and what the
\* operations on something else leave alone.
asideVars == <<runVars, twoVars, packVars>>
oneVars == <<buildVars, runVars>>
vars == <<buildVars, runVars, twoVars, packVars>>

\* ---------------------------------------------------------------- backend
\* The build log of the current build: bytes 1..n.
Log(n) == [i \in 1..n |-> i]

\* The bytes of an n-byte log from byte offset o on.
LogFrom(o, n) == IF o >= n THEN <<>> ELSE [i \in 1..(n - o) |-> o + i]

\* db.get_builder_status(self, offset, logs): the text it returns.
get_builder_status_text(off, logs) == IF logs THEN LogFrom(off, blen) ELSE <<>>

\* db.get_builder_status: the state it writes into self.status.state.
get_builder_status_state == bstate

\* db.get_builder_status: the image it leaves in self.spec.image
\* (written only when the backend reports one).
get_builder_status_image(img) == IF bimage # "" THEN bimage ELSE img

\* The build progresses pending -> running -> {ready, error}.
BackendAdvance ==
    /\ \/ bstate = "pending" /\ bstate' = "running" /\ bimage' = bimage
       \/ bstate = "running" /\ bstate' = "ready" /\ bimage' = BuiltImage
       \/ bstate = "running" /\ bstate' = "error" /\ bimage' = bimage
    /\ UNCHANGED <<fnVars, pc, op, argVars, ready, ret, logVars, probe, repeat, blen>>

\* The builder pod writes one more byte of log.
BackendLog ==
    /\ bstate \in WatchStates
    /\ blen < MaxLog
    /\ blen' = blen + 1
    /\ UNCHANGED <<fnVars, pc, op, argVars, ready, ret, logVars, probe, repeat, bstate, bimage>>

\* The backend resolves the target image name while the build is under way.
BackendResolveImage ==
    /\ bstate \in WatchStates
    /\ bimage = ""
    /\ bimage' = BuiltImage
    /\ UNCHANGED <<fnVars, pc, op, argVars, ready, ret, logVars, probe, repeat, bstate, blen>>

\* ---------------------------------------------------------------- helpers
\* The backend call of the current deploy that raised, and what it raised.
NoFailure == [at |-> "", kind |-> ""]

NoReq == [kind |-> "none", off |-> 0, before |-> 0, prev |-> 0, iter |-> 0, nref |-> 0,
          st |-> "none"]

Bump(n) == IF n < IterCap THEN n + 1 ELSE IterCap

\* kubejob.py 211: the build state is reset at the start of deploy.
ResetStateKept(st) == st

ResetStateUnlessReady(st) == IF st = "ready" THEN st ELSE ""

ResetState(st) == ""

\* kubejob.py 212-214: clear the image so build will not be skipped.
ResetImageKept(base, img) == img

ResetImageAlways(base, img) == ""

ResetImage(base, img) == IF base # "" THEN "" ELSE img

\* kubejob.py 218-219: in a pipelines context we must watch.
EffectiveWatchAsAsked(w, kfp) == w

EffectiveWatch(w, kfp) == IF kfp THEN TRUE ELSE w

\* kubejob.py 248-250: the end of deploy.
DeployOutcomeNoRaise(w, rdy) == IF rdy THEN "True" ELSE "False"

DeployOutcomeRaisesWhenWatched(w, rdy) ==
    IF w THEN "MLRunRuntimeError"
    ELSE IF rdy THEN "True" ELSE "False"

DeployOutcome(w, rdy) ==
    IF w /\ ~rdy THEN "MLRunRuntimeError"
    ELSE IF rdy THEN "True" ELSE "False"

\* kubejob.py 260-262: print_log, the text it writes.
print_log_on_error_only(text, sof, st) ==
    IF text # <<>> /\ st = "error" THEN text ELSE <<>>

print_log_whatever_state(text, sof, st) == text

print_log(text, sof, st) ==
    IF text # <<>> /\ (~sof \/ st = "error") THEN text ELSE <<>>

\* kubejob.py 265, 278: offset += len(text).
NextOffset(off, text) == off + Len(text)

\* kubejob.py 274: the offset of the re-read on failure.
RefetchOffset(off) == off

\* kubejob.py 55-59: the answer of is_deployed after the probe.
is_deployed_answer_image_only(img, st) == img # ""

is_deployed_answer_ready_only(img, st) == st = "ready"

is_deployed_answer(img, st) == img # "" \/ st = "ready"

BoolStr(b) == IF b THEN "True" ELSE "False"

\* A call other than deploy starts: what was recorded of the last deploy
\* call (its arguments, its output) is dropped.
NewCall ==
    /\ argWatch' = FALSE
    /\ watch' = FALSE
    /\ is_kfp' = FALSE
    /\ show_on_failure' = FALSE
    /\ arg_with_mlrun' = "None"
    /\ sent_with_mlrun' = FALSE
    /\ info_logged' = FALSE
    /\ hadBase' = FALSE
    /\ nbuild' = 0
    /\ failure' = NoFailure
    /\ ready' = FALSE
    /\ offset' = 0
    /\ printed' = <<>>
    /\ fetched' = <<>>
    /\ req' = NoReq

\* ---------------------------------------------------------------- state
\* No call was made yet and the backend has no build record.
NoCallYet ==
    /\ pc = "idle"
    /\ op = "new"
    /\ argWatch = FALSE
    /\ watch = FALSE
    /\ is_kfp = FALSE
    /\ show_on_failure = FALSE
    /\ arg_with_mlrun = "None"
    /\ sent_with_mlrun = FALSE
    /\ info_logged = FALSE
    /\ hadBase = FALSE
    /\ nbuild = 0
    /\ failure = NoFailure
    /\ ready = FALSE
    /\ offset = 0
    /\ ret = "None"
    /\ printed = <<>>
    /\ fetched = <<>>
    /\ req = NoReq
    /\ probe = "none"
    /\ repeat = FALSE
    /\ bstate = "none"
    /\ bimage = ""
    /\ blen = 0

\* The result of a run submission that has not ended.
NoResult == [kind |-> "-", msg |-> ""]

\* No run was submitted yet.
NoRunYet ==
    /\ status_text = None
    /\ run_state = "created"
    /\ iteration = FALSE
    /\ stored = FALSE
    /\ rpc = "idle"
    /\ rret = NoResult
    /\ working_dir = None
    /\ ncreate = 0
    /\ text_before = None
    /\ create_exc = NoResult
    /\ pod_name = ""
    /\ pod_phase = "none"
    /\ extra_env = <<>>
    /\ pod_env = <<>>

\* The two functions side by side, and the packager, are not in use.
NoOthers ==
    /\ fns = <<>>
    /\ builds = <<>>
    /\ actor = ""
    /\ calls = <<>>
    /\ pk_op = ""
    /\ pk_artifact_type = ""
    /\ pk_arguments = {}
    /\ pk_warned = FALSE
    /\ pk_result = ""
    /\ pk_passed = {}

Init ==
    /\ image \in {"", OldImage}
    /\ base_image \in {"", BaseImage}
    /\ state = ""
    /\ clone_target_dir = None
    /\ source = ""
    /\ workdir = None
    /\ load_source_on_run = FALSE
    /\ default_handler = ""
    /\ commands \in BOOLEAN
    /\ remote \in BOOLEAN
    /\ NoCallYet
    /\ build_with_mlrun = "None"
    /\ build_requirements = FALSE
    /\ build_extra = FALSE
    /\ NoRunYet
    /\ spec_env = <<>>
    /\ NoOthers

\* ---------------------------------------------------------------- with_source_archive
\* kubejob.py 88-99: spec.image after the call.
with_source_archive_image_kept(base, cmds, pull, img) ==
    IF base # "" /\ ~cmds /\ pull /\ img = "" THEN base ELSE img

with_source_archive_image_never_base(base, cmds, pull, img) ==
    IF ~pull THEN "" ELSE img

with_source_archive_image(base, cmds, pull, img) ==
    IF base # "" /\ ~cmds /\ pull /\ img = "" THEN base
    ELSE IF ~pull THEN ""
    ELSE img

\* kubejob.py 96-98: spec.build.base_image after the call.
with_source_archive_base_kept(base, cmds, pull, img) == base

with_source_archive_base(base, cmds, pull, img) ==
    IF base # "" /\ ~cmds /\ pull /\ img = "" THEN base
    ELSE IF ~pull THEN (IF base # "" THEN base ELSE img)
    ELSE base

\* kubejob.py 61-99.  The warning about zip archives (74-77) writes no state.
with_source_archive(src, wd, handler, pull_at_runtime, target_dir) ==
    /\ pc = "idle"
    /\ source' = src
    /\ default_handler' = IF handler # "" THEN handler ELSE default_handler
    /\ workdir' = IF Truthy(wd) THEN wd ELSE workdir
    /\ clone_target_dir' = IF Truthy(target_dir) THEN target_dir ELSE clone_target_dir
    /\ load_source_on_run' = pull_at_runtime
    /\ image' = with_source_archive_image(base_image, commands, pull_at_runtime, image)
    /\ base_image' = with_source_archive_base(base_image, commands, pull_at_runtime, image)
    /\ op' = "with_source_archive"
    /\ ret' = "None"
    /\ probe' = "none"
    /\ repeat' = FALSE
    /\ NewCall
    /\ UNCHANGED <<state, commands, remote, build_with_mlrun, build_requirements,
                   build_extra, pc, beVars>>

\* The calls made: all optional arguments given, loading the source at run
\* time or at build time.
WithSourceArchive ==
    \E a \in {<<RelWorkdir, "handler", TargetDir>>}, pull \in BOOLEAN :
        with_source_archive(SourceUrl, a[1], a[2], pull, a[3])

\* ---------------------------------------------------------------- build_config
\* ImageBuilder.build_config, called at kubejob.py 141-153: an argument that
\* is given is recorded, an argument left out changes nothing.  A text
\* argument is left out when it is empty (unset = ""), with_mlrun when it
\* is None; a list argument (commands, requirements), the extra Dockerfile
\* lines and load_source_on_run when they are not truthy (unset = FALSE):
\* with or without overwrite a given list leaves the field non-empty.
build_config_field(local, arg, unset) == IF arg # unset THEN arg ELSE local

\* The function needs a build: it has commands, requirements, or a source
\* to load at build time.
requires_build(cmds, reqs, src, on_run) == cmds \/ reqs \/ (src # "" /\ ~on_run)

\* prepare_image_for_deploy, called at kubejob.py 163: a function that needs
\* a build and has an image but no base image builds on top of that image;
\* spec.image is cleared so that the function counts as not deployed.
prepare_image_for_deploy(needs, img, base) ==
    IF needs /\ img # "" /\ base = ""
    THEN [image |-> "", base_image |-> img]
    ELSE [image |-> img, base_image |-> base]

\* kubejob.py 101-163.  The target image, the secret and auto_build are
\* recorded in fields no other operation here reads; prepare stands for
\* verify_base_image or prepare_image_for_deploy.
build_config(base, cmds, src, ext, on_run, wm, reqs, prepare) ==
    /\ pc = "idle"
    /\ commands' = build_config_field(commands, cmds, FALSE)
    /\ source' = build_config_field(source, src, "")
    /\ build_extra' = build_config_field(build_extra, ext, FALSE)
    /\ load_source_on_run' = build_config_field(load_source_on_run, on_run, FALSE)
    /\ build_with_mlrun' = build_config_field(build_with_mlrun, wm, "None")
    /\ build_requirements' = build_config_field(build_requirements, reqs, FALSE)
    /\ LET recorded == build_config_field(base_image, base, "")
           needs == prepare /\ requires_build(commands', build_requirements', source',
                                              load_source_on_run')
           prepared == prepare_image_for_deploy(needs, image, recorded)
       IN /\ base_image' = prepared.base_image
          /\ image' = prepared.image
    /\ op' = "build_config"
    /\ ret' = "None"
    /\ probe' = "none"
    /\ repeat' = FALSE
    /\ NewCall
    /\ UNCHANGED <<state, clone_target_dir, workdir, default_handler, remote, pc, beVars>>

\* The calls made: build commands are added, or a base image is set, and
\* the image is prepared for the deploy.
BuildConfig ==
    \E a \in {<<"", TRUE>>, <<BaseImage, FALSE>>} :
        build_config(a[1], a[2], "", FALSE, FALSE, "None", FALSE, TRUE)

\* ---------------------------------------------------------------- is_deployed
\* kubejob.py 44-45: the backend is probed only when no image is set.
is_deployed_probes_always(img) == TRUE

is_deployed_probes(img) == img = ""

\* kubejob.py 42-59.  A probe that raises leaves the function as it was
\* (48-53); when the db is not a remote API the probe is a no-op (49-50).
is_deployed ==
    /\ pc = "idle"
    /\ \E o \in (IF ~is_deployed_probes(image) THEN {"none"}
                 ELSE IF ~remote THEN {"noop"}
                 ELSE (IF bstate # "none" THEN {"ok"} ELSE {}) \cup FailureKinds) :
        /\ probe' = IF o \in FailureKinds THEN "raised" ELSE o
        /\ state' = IF o = "ok" THEN get_builder_status_state ELSE state
        /\ image' = IF o = "ok" THEN get_builder_status_image(image) ELSE image
    /\ ret' = BoolStr(is_deployed_answer(image', state'))
    /\ op' = "is_deployed"
    /\ repeat' = (op = "is_deployed")
    /\ NewCall
    /\ UNCHANGED <<base_image, clone_target_dir, source, workdir, load_source_on_run,
                   default_handler, commands, remote, build_with_mlrun,
                   build_requirements, build_extra, pc,
                   beVars>>

\* ---------------------------------------------------------------- deploy
\* The path segments of the image names of the model ("a/b" is <<"a", "b">>).
Segments(img) ==
    CASE img = BaseImage -> <<"custom", "base">>
      [] img = BackendBase -> <<"mlrun", "mlrun">>
      [] img = OldImage -> <<"repo", "func:old">>
      [] img = BuiltImage -> <<"repo", "func:built">>
      [] img = RegistryBase -> <<"registry", "mlrun", "base">>
      [] OTHER -> <<>>

\* kubejob.py 194-197: build.base_image.startswith("mlrun/") or
\* "/mlrun/" in build.base_image.
is_mlrun_image(base) ==
    LET segs == Segments(base) IN
    \/ Len(segs) >= 2 /\ segs[1] = "mlrun"
    \/ \E i \in 2..(Len(segs) - 1) : segs[i] = "mlrun"

\* kubejob.py 189-198: the with_mlrun sent with the build request, as a
\* truth value: the argument, else build.with_mlrun, else inferred from the
\* base image.
resolve_with_mlrun_argument_only(wm, bwm, base) ==
    IF wm # "None" THEN wm = "True" ELSE base # "" /\ ~is_mlrun_image(base)

resolve_with_mlrun(wm, bwm, base) ==
    IF wm # "None" THEN wm = "True"
    ELSE IF bwm # "None" THEN bwm = "True"
    ELSE base # "" /\ ~is_mlrun_image(base)

\* kubejob.py 199-210: the info line about a build that only adds the mlrun
\* package: no source, no commands, no requirements, no extra lines.
logs_mlrun_only_build(src, cmds, reqs, ext, wm) ==
    src = "" /\ ~cmds /\ ~reqs /\ ~ext /\ wm

\* kubejob.py 222: the build request is made whenever the db is a remote
\* API, whatever there is to build.
SubmitsBuildIfNeeded(rem, src, cmds, wm) == rem /\ (src # "" \/ cmds \/ wm)

SubmitsBuildWhateverDb(rem, src, cmds, wm) == TRUE

SubmitsBuild(rem, src, cmds, wm) == rem

\* kubejob.py 189-222: with_mlrun is resolved, the function is reset; without
\* a remote API the call ends at 248-250.
deploy_start(w, kfp, sof, wm) ==
    /\ pc = "idle"
    /\ nbuild' = 0
    /\ failure' = NoFailure
    /\ state' = ResetState(state)
    /\ image' = ResetImage(base_image, image)
    /\ hadBase' = (base_image # "")
    /\ argWatch' = w
    /\ is_kfp' = kfp
    /\ show_on_failure' = sof
    /\ arg_with_mlrun' = wm
    /\ sent_with_mlrun' = resolve_with_mlrun(wm, build_with_mlrun, base_image)
    /\ info_logged' = logs_mlrun_only_build(source, commands, build_requirements,
                                            build_extra, sent_with_mlrun')
    /\ watch' = EffectiveWatch(w, kfp)
    /\ ready' = FALSE
    /\ offset' = 0
    /\ printed' = <<>>
    /\ fetched' = <<>>
    /\ req' = NoReq
    /\ probe' = "none"
    /\ repeat' = FALSE
    /\ op' = "deploy"
    /\ pc' = IF SubmitsBuild(remote, source, commands, sent_with_mlrun') THEN "submit" ELSE "idle"
    /\ ret' = IF pc' = "submit" THEN "None" ELSE DeployOutcome(watch', FALSE)
    /\ UNCHANGED <<base_image, clone_target_dir, source, workdir, load_source_on_run,
                   default_handler, commands, remote, build_with_mlrun,
                   build_requirements, build_extra, beVars>>

\* The calls made: with_mlrun is left to be inferred.
DeployStart ==
    \E w \in BOOLEAN, kfp \in BOOLEAN, sof \in BOOLEAN, wm \in {"None"} :
        deploy_start(w, kfp, sof, wm)

\* db.remote_builder raises: the error reaches the caller of deploy.
deploy_submit_raises ==
    /\ pc = "submit"
    /\ \E k \in FailureKinds :
        /\ ret' = k
        /\ failure' = [at |-> "submit", kind |-> k]
    /\ nbuild' = nbuild + 1
    /\ pc' = "idle"
    /\ UNCHANGED <<fnVars, op, callVars, ready, logVars, probe, repeat, beVars>>

\* kubejob.py 231-232, 237: a field of the function is replaced by its value
\* in the response of db.remote_builder.
WriteBackKeptLocal(local, resp) == local

WriteBack(local, resp) == resp

\* kubejob.py 233-235: build.base_image or the response's base image.
KeepOrTake(local, resp) == IF local # "" THEN local ELSE resp

\* kubejob.py 223-250: db.remote_builder answers with the build's status st,
\* the image img, the base image rbase, the clone target dir rdir and its
\* own "ready" field rdy (238: data.get("ready", False), read from the
\* response and not from the status); deploy writes them back and either
\* ends or enters _build_watch.
deploy_submit_answer(st, img, rbase, rdir, rdy) ==
    /\ pc = "submit"
    /\ bstate' = st
    /\ bimage' = img
    /\ blen' = 0
    /\ state' = WriteBack(state, st)
    /\ image' = WriteBack(image, img)
    /\ base_image' = KeepOrTake(base_image, rbase)
    /\ clone_target_dir' = WriteBack(clone_target_dir, rdir)
    /\ ready' = rdy
    /\ pc' = IF watch /\ ~ready' THEN "seed" ELSE "idle"
    /\ ret' = IF watch /\ ~ready' THEN ret ELSE DeployOutcome(watch, ready')
    /\ nbuild' = nbuild + 1
    /\ UNCHANGED <<source, workdir, load_source_on_run, default_handler, commands, remote,
                   build_with_mlrun, build_requirements, build_extra,
                   op, callVars, failure, logVars, probe, repeat>>

\* The answers of db.remote_builder: the build is started or already done;
\* the image is known when it is done and may be known before.  The
\* "ready" field is a field of its own: the code reads it whatever the
\* status in the response says.
Answers ==
    {a \in [st : {"pending", "ready"}, img : {"", BuiltImage},
            rbase : {"", BackendBase}, rdir : {None, BackendDir}, rdy : BOOLEAN] :
        (a.st = "ready" \/ a.rdy) => a.img = BuiltImage}

deploy_submit ==
    \E a \in Answers : deploy_submit_answer(a.st, a.img, a.rbase, a.rdir, a.rdy)

\* ---------------------------------------------------------------- _build_watch
\* A failing status call inside the watch: the first fetch turns RunDBError
\* into ValueError (255-258); every other error reaches the caller as it is.
WatchFailureUnchanged(kind, atSeed) == kind

WatchFailure(kind, atSeed) == IF atSeed /\ kind = "RunDBError" THEN "ValueError" ELSE kind

build_watch_raises ==
    /\ pc \in {"seed", "poll", "probe", "refetch"}
    /\ \E k \in FailureKinds :
        /\ ret' = WatchFailure(k, pc = "seed")
        /\ failure' = [at |-> pc, kind |-> k]
    /\ pc' = "idle"
    /\ UNCHANGED <<fnVars, op, callVars, nbuild, ready, logVars, probe, repeat, beVars>>

\* The part of a status call that every fetch of the watch shares: the
\* enrichment of the function, the print, the offset.
Fetch(kind, off, logs) ==
    LET text == get_builder_status_text(off, logs) IN
    /\ bstate # "none"
    /\ state' = get_builder_status_state
    /\ image' = get_builder_status_image(image)
    /\ printed' = printed \o print_log(text, show_on_failure, state')
    /\ offset' = NextOffset(offset, text)
    /\ fetched' = fetched \o text
    /\ req' = [kind |-> kind, off |-> off, before |-> Len(fetched), prev |-> req.off,
               iter |-> IF kind \in {"poll", "probe"} THEN Bump(req.iter) ELSE req.iter,
               nref |-> IF kind = "refetch" THEN req.nref + 1 ELSE req.nref,
               st |-> state']
    /\ UNCHANGED <<base_image, clone_target_dir, source, workdir, load_source_on_run,
                   default_handler, commands, remote, build_with_mlrun,
                   build_requirements, build_extra, op, argVars,
                   ready, ret,
                   probe, repeat, beVars>>

\* kubejob.py 267: while state in ["pending", "running"].
KeepsWatchingWhilePending(st) == st = "pending"

KeepsWatchingUnlessReady(st) == st # "ready"

KeepsWatching(st) == st \in WatchStates

\* kubejob.py 253-265: the first fetch, at offset 0.
build_watch_seed ==
    /\ pc = "seed"
    /\ Fetch("seed", 0, TRUE)
    /\ pc' = "loop"

\* kubejob.py 266-268: the loop test and the sleep before the next poll
\* (deploy passes watch=True, so the loop is always entered).
build_watch_sleep ==
    /\ pc = "loop"
    /\ KeepsWatching(state)
    /\ pc' = IF show_on_failure THEN "probe" ELSE "poll"
    /\ UNCHANGED <<fnVars, op, argVars, ready, ret, logVars, probe, repeat, beVars>>

\* kubejob.py 275-278: the incremental fetch.
build_watch_poll ==
    /\ pc = "poll"
    /\ Fetch("poll", offset, TRUE)
    /\ pc' = "loop"

\* kubejob.py 269-272, 277-278: under show_on_failure the status alone is
\* fetched; the empty text is printed and counted.
build_watch_probe ==
    /\ pc = "probe"
    /\ Fetch("probe", 0, FALSE)
    /\ pc' = IF state' = "error" THEN "refetch" ELSE "loop"

\* kubejob.py 273-274, 277-278: the re-read of the log on failure.
build_watch_refetch ==
    /\ pc = "refetch"
    /\ Fetch("refetch", RefetchOffset(offset), TRUE)
    /\ pc' = "loop"

\* kubejob.py 267, 280: the loop test fails and the closing newline is
\* printed; status.state is read again only after the print.
build_watch_exit ==
    /\ pc = "loop"
    /\ ~KeepsWatching(state)
    /\ printed' = printed \o <<NL>>
    /\ pc' = "return"
    /\ UNCHANGED <<fnVars, op, argVars, ready, ret, offset, fetched, req, probe, repeat,
                   beVars>>

\* kubejob.py 281 and 245-250: _build_watch returns status.state as it is
\* now, deploy writes it back and returns or raises.
build_watch_return ==
    /\ pc = "return"
    /\ ready' = (state = "ready")
    /\ ret' = DeployOutcome(watch, ready')
    /\ pc' = "idle"
    /\ UNCHANGED <<fnVars, op, argVars, logVars, probe, repeat, beVars>>

\* ---------------------------------------------------------------- specification
\* The operations of the build lifecycle; none of them touches a run.
Next ==
    \/ WithSourceArchive /\ UNCHANGED asideVars
    \/ BuildConfig /\ UNCHANGED asideVars
    \/ is_deployed /\ UNCHANGED asideVars
    \/ DeployStart /\ UNCHANGED asideVars
    \/ deploy_submit /\ UNCHANGED asideVars
    \/ deploy_submit_raises /\ UNCHANGED asideVars
    \/ build_watch_seed /\ UNCHANGED asideVars
    \/ build_watch_sleep /\ UNCHANGED asideVars
    \/ build_watch_poll /\ UNCHANGED asideVars
    \/ build_watch_probe /\ UNCHANGED asideVars
    \/ build_watch_refetch /\ UNCHANGED asideVars
    \/ build_watch_exit /\ UNCHANGED asideVars
    \/ build_watch_return /\ UNCHANGED asideVars
    \/ build_watch_raises /\ UNCHANGED asideVars
    \/ BackendAdvance /\ UNCHANGED asideVars
    \/ BackendLog /\ UNCHANGED asideVars
    \/ BackendResolveImage /\ UNCHANGED asideVars

Spec == Init /\ [][Next]_vars

\* ---------------------------------------------------------------- the watched deploy
\* The steps of a deploy call under way: the thread that runs deploy()
\* takes its next step, and every backend call it makes answers or raises.
DeploySteps ==
    \/ deploy_submit
    \/ deploy_submit_raises
    \/ build_watch_seed
    \/ build_watch_sleep
    \/ build_watch_poll
    \/ build_watch_probe
    \/ build_watch_refetch
    \/ build_watch_exit
    \/ build_watch_return
    \/ build_watch_raises

\* A function with a base image, deployed against a remote API.
WatchInit ==
    /\ image = ""
    /\ base_image = BaseImage
    /\ state = ""
    /\ clone_target_dir = None
    /\ source = ""
    /\ workdir = None
    /\ load_source_on_run = FALSE
    /\ default_handler = ""
    /\ commands = FALSE
    /\ remote = TRUE
    /\ NoCallYet
    /\ build_with_mlrun = "None"
    /\ build_requirements = FALSE
    /\ build_extra = FALSE
    /\ NoRunYet
    /\ spec_env = <<>>
    /\ NoOthers

WatchNext ==
    \/ DeployStart /\ UNCHANGED asideVars
    \/ deploy_submit /\ UNCHANGED asideVars
    \/ deploy_submit_raises /\ UNCHANGED asideVars
    \/ build_watch_seed /\ UNCHANGED asideVars
    \/ build_watch_sleep /\ UNCHANGED asideVars
    \/ build_watch_poll /\ UNCHANGED asideVars
    \/ build_watch_probe /\ UNCHANGED asideVars
    \/ build_watch_refetch /\ UNCHANGED asideVars
    \/ build_watch_exit /\ UNCHANGED asideVars
    \/ build_watch_return /\ UNCHANGED asideVars
    \/ build_watch_raises /\ UNCHANGED asideVars
    \/ BackendAdvance /\ UNCHANGED asideVars
    \/ BackendLog /\ UNCHANGED asideVars
    \/ BackendResolveImage /\ UNCHANGED asideVars

\* The deploy call keeps running: no step of it is put off forever.  The
\* backend is under no obligation to finish the build.
WatchSpec == WatchInit /\ [][WatchNext]_vars /\ WF_vars(DeploySteps /\ UNCHANGED asideVars)

\* ---------------------------------------------------------------- _resolve_workdir

\* The paths of at most n characters.
Paths(n) == UNION {[1..k -> {".", "/", "s"}] : k \in 0..n}

\* str.startswith.
startswith(w, prefix) ==
    Len(w) >= Len(prefix) /\ SubSeq(w, 1, Len(prefix)) = prefix

\* os.path.isabs (posix): the path begins with a slash.
isabs(w) == startswith(w, <<"/">>)

\* os.path.join (posix) of two components: an absolute second component
\* replaces the first; a separator is added unless the first is empty or
\* ends with one.
os_path_join(a, b) ==
    IF isabs(b) THEN b
    ELSE IF a = <<>> \/ a[Len(a)] = "/" THEN a \o b
    ELSE a \o <<"/">> \o b

\* kubejob.py 360-363: workdir[2:] when workdir starts with "./".
strip_prefix_never(w) == w

strip_prefix(w) == IF startswith(w, <<".", "/">>) THEN SubSeq(w, 3, Len(w)) ELSE w

\* kubejob.py 343-366.
resolve_workdir_defers_on_flag(wd, ctd, src, load_on_run) ==
    IF load_on_run THEN None
    ELSE IF Truthy(wd) /\ isabs(wd) THEN wd
    ELSE IF Truthy(ctd)
         THEN os_path_join(ctd, strip_prefix(IF Truthy(wd) THEN wd ELSE <<>>))
    ELSE wd

resolve_workdir(wd, ctd, src, load_on_run) ==
    IF src # "" /\ load_on_run THEN None
    ELSE IF Truthy(wd) /\ isabs(wd) THEN wd
    ELSE IF Truthy(ctd)
         THEN os_path_join(ctd, strip_prefix(IF Truthy(wd) THEN wd ELSE <<>>))
    ELSE wd

\* ---------------------------------------------------------------- _run
\* The pod backend (get_k8s().create_pod): the names it assigns, the
\* namespace, the reasons it rejects a pod with (ApiException) and the
\* errors of another kind it can raise.
PodNames == {"pod-name", "pod-name-2"}
Rejections == {"quota exceeded", "pod already exists"}

\* mlrun.errors.err_to_str: the message of the exception.
err_to_str(exc) == exc.msg

\* kubejob.py 337: the status line.
StatusLineNoPod(name) == <<"Job is running in the background", "">>

StatusLine(name) == <<"Job is running in the background, pod: ", name>>

\* kubejob.py 373: the env list of the pod's container.
func_to_pod_env_function_first(extra, env) == env \o extra

func_to_pod_env(extra, env) == extra \o env

\* KubeResource._set_env: the entry replaces the first entry of the list
\* that has its name; the list has none, it is appended.
set_env(env, e) ==
    IF \E i \in 1..Len(env) : env[i].name = e.name
    THEN LET first == CHOOSE i \in 1..Len(env) :
                        /\ env[i].name = e.name
                        /\ \A j \in 1..(i - 1) : env[j].name # e.name
         IN [env EXCEPT ![first] = e]
    ELSE Append(env, e)

\* kubejob.py 315, KubeResource._add_secrets_to_spec_before_running: for
\* each secret of the run's project, in their order, a reference to the
\* secret is set in the function's own env list under the secret's env
\* name.
RECURSIVE add_secrets_to_spec_before_running(_, _)
add_secrets_to_spec_before_running(env, secrets) ==
    IF secrets = <<>> THEN env
    ELSE add_secrets_to_spec_before_running(
             set_env(env, [name |-> Head(secrets), value |-> "secretKeyRef"]),
             Tail(secrets))

\* kubejob.py 308-330: the run is stored when it is an iteration of a
\* hyper-parameter run, the references to the project's secrets are added
\* to the function's env list (315), the workdir is resolved and the pod is
\* built from the list as it then stands.
run_start(iter, text, extra, secrets) ==
    /\ rpc = "idle"
    /\ iteration' = iter
    /\ stored' = iter
    /\ status_text' = text
    /\ text_before' = text
    /\ run_state' = "created"
    /\ working_dir' = resolve_workdir(workdir, clone_target_dir, source, load_source_on_run)
    /\ extra_env' = extra
    /\ spec_env' = add_secrets_to_spec_before_running(spec_env, secrets)
    /\ pod_env' = func_to_pod_env(extra, spec_env')
    /\ ncreate' = 0
    /\ rret' = NoResult
    /\ create_exc' = NoResult
    /\ pod_name' = ""
    /\ pod_phase' = "none"
    /\ rpc' = "create_pod"
    /\ UNCHANGED buildVars

\* The runs submitted: none injects env entries; the project has no secret
\* or one.
RunStart ==
    \E iter \in BOOLEAN, text \in {None, <<"submitted">>}, secrets \in {<<>>, <<"S">>} :
        run_start(iter, text, <<>>, secrets)

\* kubejob.py 332, 337-341: create_pod answers with the pod's name and
\* namespace; the status line is written and _run returns None.
run_create_pod ==
    /\ rpc = "create_pod"
    /\ \E name \in PodNames :
        /\ pod_name' = name
        /\ status_text' = StatusLine(name)
    /\ pod_phase' = "Pending"
    /\ ncreate' = ncreate + 1
    /\ rret' = [kind |-> "None", msg |-> ""]
    /\ rpc' = "idle"
    /\ UNCHANGED <<buildVars, run_state, iteration, stored, working_dir, text_before,
                   create_exc, envVars>>

\* kubejob.py 334-335: what _run raises for an exception of create_pod.
RaisedUnwrapped(exc) == exc

Raised(exc) ==
    IF exc.kind = "ApiException" THEN [kind |-> "RunError", msg |-> err_to_str(exc)]
    ELSE exc

\* kubejob.py 335: the raise ends the call; create_pod is not called again.
AfterRaiseRetry == "create_pod"

AfterRaise == "idle"

\* kubejob.py 332-335: create_pod raises.
run_create_pod_raises ==
    /\ rpc = "create_pod"
    /\ \E exc \in {[kind |-> "ApiException", msg |-> m] : m \in Rejections}
                    \cup {[kind |-> "MaxRetryError", msg |-> "connection refused"]} :
        /\ create_exc' = exc
        /\ rret' = Raised(exc)
    /\ ncreate' = ncreate + 1
    /\ rpc' = AfterRaise
    /\ UNCHANGED <<buildVars, status_text, run_state, iteration, stored, working_dir,
                   text_before, pod_name, pod_phase, envVars>>

\* The pod runs on the cluster, whatever the client does.
PodAdvance ==
    /\ \/ pod_phase = "Pending" /\ pod_phase' = "Running"
       \/ pod_phase = "Running" /\ pod_phase' \in {"Succeeded", "Failed"}
    /\ UNCHANGED <<buildVars, status_text, run_state, iteration, stored, rpc, rret,
                   working_dir, ncreate, text_before, create_exc, pod_name, envVars>>

\* The functions runs are submitted for: every workdir of at most MaxPath
\* characters, with and without a clone target dir and a source.
RunInit ==
    /\ image = OldImage
    /\ base_image = ""
    /\ state = ""
    /\ clone_target_dir \in {None, <<>>, TargetDir, TargetDir \o <<"/">>, <<"s">>}
    /\ source \in {"", SourceUrl}
    /\ workdir \in Paths(MaxPath) \cup {None}
    /\ load_source_on_run \in BOOLEAN
    /\ default_handler = ""
    /\ commands = FALSE
    /\ remote = TRUE
    /\ NoCallYet
    /\ build_with_mlrun = "None"
    /\ build_requirements = FALSE
    /\ build_extra = FALSE
    /\ NoRunYet
    /\ spec_env = <<>>
    /\ NoOthers

RunNext ==
    \/ RunStart /\ UNCHANGED <<twoVars, packVars>>
    \/ run_create_pod /\ UNCHANGED <<twoVars, packVars>>
    \/ run_create_pod_raises /\ UNCHANGED <<twoVars, packVars>>
    \/ PodAdvance /\ UNCHANGED <<twoVars, packVars>>

RunSpec == RunInit /\ [][RunNext]_vars

\* A run submission that has ended.
RunEnded == rpc = "idle" /\ rret # NoResult

\* ---------------------------------------------------------------- two functions
\* Two KubejobRuntime objects whose calls interleave at the backend calls.
\* Each has its own build record on the backend, kept under its name.
Funcs == {"f1", "f2"}

\* The image the backend builds for a function.
BuiltImageOf(f) == IF f = "f1" THEN "repo/f1:built" ELSE "repo/f2:built"

\* An assignment to an attribute of self, or to a local variable of a call
\* on self: the object f is written, no other.
StoreOffsetShared(fs, f, rec) ==
    [g \in DOMAIN fs |-> IF g = f THEN rec ELSE [fs[g] EXCEPT !.offset = rec.offset]]

Store(fs, f, rec) == [fs EXCEPT ![f] = rec]

\* kubejob.py 211-222 for the function f (watch is True, the db is remote).
two_deploy_start(f) ==
    /\ fns[f].pc = "idle"
    /\ fns' = Store(fns, f, [fns[f] EXCEPT !.state = ResetState(@),
                                          !.image = ResetImage(fns[f].base_image, @),
                                          !.offset = 0,
                                          !.pc = "submit"])
    /\ actor' = f
    /\ UNCHANGED builds

\* kubejob.py 223-246 for the function f.
two_deploy_submit(f) ==
    /\ fns[f].pc = "submit"
    /\ \E st \in {"pending", "ready"}, rdy \in BOOLEAN :
        LET img == IF st = "ready" \/ rdy THEN BuiltImageOf(f) ELSE "" IN
        /\ builds' = [builds EXCEPT ![f] = [bstate |-> st, bimage |-> img, blen |-> 0]]
        /\ fns' = Store(fns, f, [fns[f] EXCEPT
                        !.state = st,
                        !.image = img,
                        !.base_image = IF @ # "" THEN @ ELSE BackendBase,
                        !.clone_target_dir = BackendDir,
                        !.pc = IF rdy THEN "idle" ELSE "seed"])
    /\ actor' = f

\* kubejob.py 256-265 and 276-278 for the function f: a status fetch.
two_fetch(f) ==
    /\ fns[f].pc \in {"seed", "poll"}
    /\ LET b == builds[f]
           text == LogFrom(IF fns[f].pc = "seed" THEN 0 ELSE fns[f].offset, b.blen)
       IN fns' = Store(fns, f, [fns[f] EXCEPT
                        !.state = b.bstate,
                        !.image = IF b.bimage # "" THEN b.bimage ELSE @,
                        !.offset = NextOffset(@, text),
                        !.pc = "loop"])
    /\ actor' = f
    /\ UNCHANGED builds

\* kubejob.py 267-268 and 280-281 for the function f: the loop test.
two_loop(f) ==
    /\ fns[f].pc = "loop"
    /\ fns' = Store(fns, f, [fns[f] EXCEPT
                    !.pc = IF KeepsWatching(fns[f].state) THEN "poll" ELSE "idle"])
    /\ actor' = f
    /\ UNCHANGED builds

\* A backend call of f's deploy raises.
two_raises(f) ==
    /\ fns[f].pc \in {"submit", "seed", "poll"}
    /\ fns' = Store(fns, f, [fns[f] EXCEPT !.pc = "idle"])
    /\ actor' = f
    /\ UNCHANGED builds

\* kubejob.py 42-59 for the function f.
two_is_deployed(f) ==
    /\ fns[f].pc = "idle"
    /\ \E answered \in BOOLEAN :
        LET b == builds[f]
            probed == is_deployed_probes(fns[f].image) /\ answered /\ b.bstate # "none"
        IN fns' = Store(fns, f, [fns[f] EXCEPT
                        !.state = IF probed THEN b.bstate ELSE @,
                        !.image = IF probed /\ b.bimage # "" THEN b.bimage ELSE @])
    /\ actor' = f
    /\ UNCHANGED builds

\* kubejob.py 308-341 for the function f: a run is submitted; of the
\* function, its env list is written (315), with the references to the
\* secrets of the project.
two_run(f) ==
    /\ fns[f].pc = "idle"
    /\ \E secrets \in {<<>>, <<"S">>} :
        fns' = Store(fns, f, [fns[f] EXCEPT
                        !.env = add_secrets_to_spec_before_running(@, secrets)])
    /\ actor' = f
    /\ UNCHANGED builds

\* The backend works on f's build: it advances it or writes a byte of log.
two_backend(f) ==
    /\ \E b \in {[builds[f] EXCEPT !.bstate = "running"],
                 [builds[f] EXCEPT !.bstate = "ready", !.bimage = BuiltImageOf(f)],
                 [builds[f] EXCEPT !.bstate = "error"],
                 [builds[f] EXCEPT !.blen = @ + 1]} :
        /\ \/ builds[f].bstate = "pending" /\ b.bstate = "running"
           \/ builds[f].bstate = "running" /\ b.bstate \in {"ready", "error"}
           \/ builds[f].bstate \in WatchStates /\ b.blen = builds[f].blen + 1 /\ b.blen <= MaxLog
        /\ builds' = [builds EXCEPT ![f] = b]
    /\ actor' = f
    /\ UNCHANGED fns

TwoInit ==
    /\ image = ""
    /\ base_image = ""
    /\ state = ""
    /\ clone_target_dir = None
    /\ source = ""
    /\ workdir = None
    /\ load_source_on_run = FALSE
    /\ default_handler = ""
    /\ commands = FALSE
    /\ remote = TRUE
    /\ NoCallYet
    /\ build_with_mlrun = "None"
    /\ build_requirements = FALSE
    /\ build_extra = FALSE
    /\ NoRunYet
    /\ spec_env = <<>>
    /\ fns = [f \in Funcs |->
                [image |-> "", base_image |-> IF f = "f1" THEN BaseImage ELSE "",
                 clone_target_dir |-> None, state |-> "", offset |-> 0, pc |-> "idle",
                 env |-> <<>>]]
    /\ builds = [f \in Funcs |-> [bstate |-> "none", bimage |-> "", blen |-> 0]]
    /\ actor = ""
    /\ calls = <<>>
    /\ pk_op = ""
    /\ pk_artifact_type = ""
    /\ pk_arguments = {}
    /\ pk_warned = FALSE
    /\ pk_result = ""
    /\ pk_passed = {}

TwoNext ==
    \E f \in Funcs :
        \/ two_deploy_start(f) /\ UNCHANGED <<oneVars, packVars, calls>>
        \/ two_deploy_submit(f) /\ UNCHANGED <<oneVars, packVars, calls>>
        \/ two_fetch(f) /\ UNCHANGED <<oneVars, packVars, calls>>
        \/ two_loop(f) /\ UNCHANGED <<oneVars, packVars, calls>>
        \/ two_raises(f) /\ UNCHANGED <<oneVars, packVars, calls>>
        \/ two_is_deployed(f) /\ UNCHANGED <<oneVars, packVars, calls>>
        \/ two_run(f) /\ UNCHANGED <<oneVars, packVars, calls>>
        \/ two_backend(f) /\ UNCHANGED <<oneVars, packVars, calls>>

TwoSpec == TwoInit /\ [][TwoNext]_vars

\* ---------------------------------------------------------------- DefaultPackager
\* default_packager.py 277-326: the parameters of the pack and unpack
\* methods of DefaultPackager, in order.
Parameters(method) ==
    CASE method = "pack_object" -> <<"obj", "key", "pickle_module_name">>
      [] method = "pack_result" -> <<"obj", "key">>
      [] method = "unpack_object" ->
            <<"data_item", "pickle_module_name", "object_module_name", "python_version",
              "pickle_module_version", "object_module_version">>
      [] OTHER -> <<>>

\* The parameters that have no default value.
NoDefault(method) ==
    CASE method = "pack_object" -> {"obj", "key"}
      [] method = "pack_result" -> {"obj", "key"}
      [] method = "unpack_object" -> {"data_item"}
      [] OTHER -> {}

\* The methods the class has (getattr raises AttributeError for another).
Methods == {"pack_object", "pack_result", "unpack_object"}

\* The artifact types a caller may name: two the class has methods for and
\* one it has none for.
ArtifactTypes == {"object", "result", "file"}

\* default_packager.py 148-161: the types with a pack_ and an unpack_ method,
\* and 'result'.
get_supported_artifact_types_pairs_only ==
    {t \in ArtifactTypes : ("pack_" \o t) \in Methods /\ ("unpack_" \o t) \in Methods}

get_supported_artifact_types ==
    {t \in ArtifactTypes : ("pack_" \o t) \in Methods /\ ("unpack_" \o t) \in Methods}
        \cup {"result"}

\* default_packager.py 240-274: is_packable for a packager of any object
\* type (PACKABLE_OBJECT_TYPE is ...).
is_packable(artifact_type) ==
    ~(artifact_type # "None" /\ artifact_type \notin get_supported_artifact_types)

Names(seq) == {seq[i] : i \in 1..Len(seq)}

\* default_packager.py 380-396: the mandatory arguments that are missing.
missing_arguments(method, arguments, is_packing) ==
    (NoDefault(method) \ {IF is_packing THEN "obj" ELSE "data_item"}) \ arguments

\* default_packager.py 413-415: the arguments the method has no parameter for.
incorrect_arguments(method, arguments) == arguments \ Names(Parameters(method))

\* default_packager.py 198, 237: method(obj, **arguments).  Every keyword is
\* passed on; Python raises TypeError for a keyword the method has no
\* parameter for.
call_method(method, arguments) ==
    IF arguments \subseteq Names(Parameters(method))
    THEN [result |-> "completed", passed |-> arguments]
    ELSE [result |-> "TypeError", passed |-> {}]

\* default_packager.py 164-198 and 201-237: pack (is_packing) and unpack.
pack_or_unpack(is_packing) ==
    LET type == IF pk_artifact_type = "None" THEN "object" ELSE pk_artifact_type
        method == (IF is_packing THEN "pack_" ELSE "unpack_") \o type
        found == method \in Methods
        missing == missing_arguments(method, pk_arguments, is_packing)
        called == call_method(method, pk_arguments)
    IN
    /\ pk_op = "new"
    /\ pk_op' = IF is_packing THEN "pack" ELSE "unpack"
    /\ pk_warned' = (found /\ missing = {} /\ incorrect_arguments(method, pk_arguments) # {})
    /\ pk_result' =
          IF ~found THEN "AttributeError"
          ELSE IF missing # {}
               THEN (IF is_packing THEN "MLRunPackagePackingError"
                     ELSE "MLRunPackageUnpackingError")
          ELSE called.result
    /\ pk_passed' = IF found /\ missing = {} THEN called.passed ELSE {}
    /\ UNCHANGED <<pk_artifact_type, pk_arguments>>

pack == pack_or_unpack(TRUE)

unpack == pack_or_unpack(FALSE)

\* The calls made: every artifact type and every set of argument names.
PackInit ==
    /\ image = ""
    /\ base_image = ""
    /\ state = ""
    /\ clone_target_dir = None
    /\ source = ""
    /\ workdir = None
    /\ load_source_on_run = FALSE
    /\ default_handler = ""
    /\ commands = FALSE
    /\ remote = TRUE
    /\ NoCallYet
    /\ build_with_mlrun = "None"
    /\ build_requirements = FALSE
    /\ build_extra = FALSE
    /\ NoRunYet
    /\ spec_env = <<>>
    /\ fns = <<>>
    /\ builds = <<>>
    /\ actor = ""
    /\ calls = <<>>
    /\ pk_op = "new"
    /\ pk_artifact_type \in {"None"} \cup ArtifactTypes
    /\ pk_arguments \in SUBSET {"key", "pickle_module_name", "python_version", "compression"}
    /\ pk_warned = FALSE
    /\ pk_result = ""
    /\ pk_passed = {}

PackNext ==
    \/ pack /\ UNCHANGED <<oneVars, twoVars>>
    \/ unpack /\ UNCHANGED <<oneVars, twoVars>>

PackSpec == PackInit /\ [][PackNext]_vars

\* ---------------------------------------------------------------- properties
\* The log bytes of what was printed, without the newline of print().
LogText(out) == SelectSeq(out, LAMBDA b : b # NL)

\* A deploy call that has returned or raised.
DeployEnded == op = "deploy" /\ pc = "idle"

\* A deploy call whose every backend call answered and whose watch loop ran
\* to its end.
WatchEnded == DeployEnded /\ req.kind # "none" /\ ret \in {"True", "MLRunRuntimeError"}

\* A deploy call whose build request was answered with the "ready" field
\* set: the call ended there, without a status call.
ImmediatelyReady ==
    DeployEnded /\ nbuild = 1 /\ failure = NoFailure /\ req.kind = "none" /\ ready

\* C1 (as claimed): for a function with base_image set, from deploy() on,
\* spec.image is empty as long as no 'ready' status has been observed: it is
\* never non-empty while status.state is '', 'pending', 'running' or 'error'.
C1_ImageEmptyUntilReady ==
    (op = "deploy" /\ hadBase /\ state # "ready") => image = ""

\* C1 (amended): for a function with base_image set, deploy() clears
\* spec.image before it submits the build, and from then on spec.image holds
\* only what the backend reported for the build (empty, or the image of the
\* build response or of a status fetch), also while the state is pending,
\* running or error; the image set before the call never survives.
C1_ImageOnlyFromBackend ==
    (op = "deploy" /\ hadBase) =>
        /\ pc = "submit" => image = ""
        /\ image \in {"", bimage}

C1_Witness ==
    /\ DeployEnded /\ hadBase
    /\ ret = "MLRunRuntimeError"
    /\ state = "error"
    /\ image = BuiltImage

\* C2 (as claimed): deploy(watch=true) returns true exactly when the final
\* build state is 'ready' and in every other case raises 'Deploy failed';
\* only watch=false with is_kfp=false returns a not-ready result.
C2_TrueOrDeployFailed ==
    DeployEnded =>
        /\ argWatch => ret \in {"True", "MLRunRuntimeError"}
        /\ argWatch => (ret = "True" <=> (ImmediatelyReady \/ state = "ready"))
        /\ ret = "False" => (~argWatch /\ ~is_kfp)

\* C2 (amended): deploy(watch=true) never returns false: it returns true
\* exactly when the build response was immediately ready (its "ready" field
\* was set) or the watch loop ended in 'ready'; otherwise it raises, with
\* 'Deploy failed' when the build ended not ready and with the error of the
\* backend call when a backend call failed (ValueError for a RunDBError of
\* the first status fetch); only watch=false with is_kfp=false returns a
\* not-ready result.
C2_TrueOrRaises ==
    DeployEnded =>
        /\ argWatch => ret \in {"True", "MLRunRuntimeError", "ValueError"} \cup FailureKinds
        /\ argWatch => (ret = "True" <=> (ImmediatelyReady \/ (WatchEnded /\ state = "ready")))
        /\ (argWatch /\ ret = "MLRunRuntimeError") => state \notin WatchStates
        /\ ret = "False" => (~argWatch /\ ~is_kfp)

C2_Witness ==
    /\ DeployEnded /\ argWatch
    /\ ret = "MLRunRuntimeError"
    /\ state = "error"

\* C3: with is_kfp=true and watch=false the call waits: when the build is not
\* ready at once (the "ready" field of the build response is not set) the
\* watch loop runs, and deploy returns (or raises 'Deploy failed') only
\* after the state has left {pending, running}.
C3_KfpForcesWatch ==
    (op = "deploy" /\ is_kfp /\ ~argWatch) =>
        /\ pc = "idle" => ret # "False"
        /\ ImmediatelyReady => ret = "True"
        /\ (pc = "idle" /\ ret \in {"True", "MLRunRuntimeError"} /\ ~ImmediatelyReady) =>
              state \notin WatchStates
        /\ (pc = "idle" /\ ret = "True" /\ ~ImmediatelyReady) =>
              (req.kind # "none" /\ state = "ready")
        /\ (pc = "idle" /\ remote /\ ret = "MLRunRuntimeError") =>
              (req.kind # "none" /\ printed # <<>> /\ printed[Len(printed)] = NL)

C3_Witness ==
    /\ DeployEnded /\ is_kfp /\ ~argWatch
    /\ ret = "True"
    /\ req.kind = "poll"

\* C4 (the claim): under show_on_failure, the fetch made when the loop finds
\* the state 'error' asks for offset 0, and what is printed for the failed
\* build is the complete log from its first byte, the text of the first
\* fetch included.
C4_RefetchFromZero ==
    (op = "deploy" /\ show_on_failure /\ req.kind = "refetch") =>
        /\ req.off = 0
        /\ LogText(printed) = Log(blen)

\* C5 (the claim): the offset asked of the backend never decreases and, at
\* each incremental fetch, is the number of log bytes fetched so far; the
\* one exception is the re-read on error under show_on_failure, which asks
\* for offset 0 and happens once.
C5_OffsetRule ==
    op = "deploy" =>
        /\ req.kind \in {"seed", "poll"} => (req.off = req.before /\ req.off >= req.prev)
        /\ req.kind = "probe" => req.off >= req.prev
        /\ req.kind = "refetch" => (req.off = 0 /\ req.nref = 1)

\* C6: without show_on_failure the text printed by the watch is the first
\* fetch's chunk followed by every poll's chunk, in order, each once (empty
\* chunks add nothing): every byte of the log up to the offset, once; and
\* the call returns true iff the last state is 'ready'.
C6_PrintedIsConcatenation ==
    (op = "deploy" /\ ~show_on_failure) =>
        /\ LogText(printed) = fetched
        /\ fetched = Log(Len(fetched))
        /\ pc \in {"loop", "poll"} => offset = Len(fetched)
        /\ WatchEnded => (printed = fetched \o <<NL>> /\ (ret = "True" <=> state = "ready"))

C6_Witness ==
    /\ WatchEnded /\ ~show_on_failure
    /\ ret = "True"
    /\ req.kind = "poll" /\ req.before >= 1 /\ Len(fetched) > req.before
    /\ printed = fetched \o <<NL>>

\* C7 (the claim): under show_on_failure, when the first poll of the loop
\* reports 'error', the log is fetched again from offset 0 and the complete
\* log is printed exactly once: no byte twice, none missing.
C7_FullLogOnceOnFirstError ==
    (WatchEnded /\ show_on_failure /\ req.kind = "refetch" /\ req.iter = 1) =>
        printed = Log(blen) \o <<NL>>

\* C8 (as claimed): is_deployed never raises, and whenever its probe of the
\* backend raises it returns false.
C8_ProbeFailureMeansFalse ==
    op = "is_deployed" =>
        /\ ret \in {"True", "False"}
        /\ probe = "raised" => ret = "False"

\* C8 (amended): is_deployed never raises; when its probe raises, the
\* function is as it was before the call (no image) and the answer comes
\* from the local state alone: true iff status.state is already 'ready',
\* false otherwise.
C8_ProbeFailureAnsweredLocally ==
    op = "is_deployed" =>
        /\ ret \in {"True", "False"}
        /\ probe = "raised" => (image = "" /\ (ret = "True" <=> state = "ready"))
        /\ (probe = "raised" /\ state # "ready") => ret = "False"

C8_Witness ==
    /\ op = "is_deployed"
    /\ probe = "raised"
    /\ state = "ready"
    /\ ret = "True"

\* An is_deployed call that follows an is_deployed call, no other call of
\* the function in between.
SecondIsDeployed == is_deployed /\ op = "is_deployed"

\* C9 (as claimed): the second of two is_deployed calls with no deploy in
\* between changes neither spec.image nor status.state, whatever the backend
\* did between the two calls.
C9_SecondCallChangesNothing ==
    [][SecondIsDeployed => (image' = image /\ state' = state)]_vars

\* C9 (amended): the second of two is_deployed calls with no deploy in
\* between changes nothing when spec.image is set (no probe is made), when
\* its probe raises or is a no-op, or when the backend reports the state the
\* function already has and no image; when the build has moved on between
\* the two calls, it writes the backend's state, and its image if it reports
\* one, into the function.
C9_SecondCallFollowsBackend ==
    [][SecondIsDeployed =>
        /\ (image # "" \/ probe' \in {"raised", "noop"}) => (image' = image /\ state' = state)
        /\ (probe' = "ok" /\ bstate = state /\ bimage = "") => (image' = image /\ state' = state)
        /\ probe' = "ok" => (state' = bstate /\ image' = IF bimage # "" THEN bimage ELSE image)
        /\ image # "" => probe' = "none"
      ]_vars

C9_Witness ==
    /\ op = "is_deployed" /\ repeat
    /\ probe = "ok"
    /\ state = "ready"
    /\ image = BuiltImage

\* The place of a build state on the path unbuilt -> pending -> running ->
\* {ready, error}.
Rank(st) ==
    CASE st = "" -> 0
      [] st = "pending" -> 1
      [] st = "running" -> 2
      [] OTHER -> 3

\* A change of the build state along the path: the reset made by a new
\* deploy call, or a move forward from a state that is not final.
AlongPath == (DeployStart /\ state' = "") \/ Rank(state') > Rank(state)

\* C10 (as claimed): the build state moves only along unbuilt -> pending ->
\* running -> {ready, error}, leaves 'ready' and 'error' only by a new
\* deploy call, and is changed by deploy and its watch loop alone.
C10_StateOnlyByDeploy ==
    [][state' # state => (AlongPath /\ op' = "deploy")]_vars

\* C10 (amended): the build state moves only along unbuilt -> pending ->
\* running -> {ready, error} and leaves 'ready' and 'error' only by a new
\* deploy call; it is changed by deploy and its watch loop and also by the
\* status probe of is_deployed (made when spec.image is empty), which moves
\* it forward to the state the backend reports.
C10_StateAlongPath ==
    [][state' # state => (AlongPath /\ op' \in {"deploy", "is_deployed"})]_vars

C10_Witness ==
    /\ op = "is_deployed"
    /\ probe = "ok"
    /\ state = "running"
    /\ ret = "False"

\* C11 (as claimed): in every reachable state of a function exactly one of
\* the two holds: spec.image is set, or a build is pending (status.state is
\* 'pending' or 'running'); never both and never neither.
C11_ImageXorPending ==
    (image # "") # (state \in WatchStates)

\* C11 (amended): 'spec.image is set' and 'a build is pending' are not
\* complementary: both fail for a function that was never built or whose
\* build failed, and both hold once the backend reports the target image of
\* a build under way.  What holds is the rule that forces a rebuild:
\* with_source_archive() with pull_at_runtime false leaves spec.image empty
\* and keeps the previous image as base_image when no base image was set;
\* with pull_at_runtime true it leaves spec.image set whenever an image or a
\* base image without build commands was set.
C11_SourceAtBuildTimeClearsImage ==
    [][WithSourceArchive =>
        /\ ~load_source_on_run' =>
            /\ image' = ""
            /\ base_image' = (IF base_image # "" THEN base_image ELSE image)
        /\ load_source_on_run' =>
            /\ base_image' = base_image
            /\ image' = (IF image # "" THEN image
                         ELSE IF ~commands THEN base_image ELSE "")]_vars

C11_Witness ==
    /\ op = "with_source_archive"
    /\ ~load_source_on_run
    /\ image = ""
    /\ base_image = OldImage
    /\ state \notin WatchStates

\* The value of a path that may be None, as a string.
OrEmpty(w) == IF w = None THEN <<>> ELSE w

\* The workdir policy, rule by rule.
WorkdirPolicy(wd, ctd, src, load_on_run) ==
    CASE src # "" /\ load_on_run -> None
      [] ~(src # "" /\ load_on_run) /\ isabs(OrEmpty(wd)) -> wd
      [] ~(src # "" /\ load_on_run) /\ ~isabs(OrEmpty(wd)) /\ OrEmpty(ctd) # <<>> ->
            LET w == OrEmpty(wd)
                rest == IF Len(w) >= 2 /\ w[1] = "." /\ w[2] = "/"
                        THEN [i \in 1..(Len(w) - 2) |-> w[i + 2]] ELSE w
            IN os_path_join(ctd, rest)
      [] OTHER -> wd

\* C12: the working directory _run gives the pod is the one of the four-rule
\* policy, in priority order: (1) a source loaded on run: None; (2) an
\* absolute workdir: unchanged; (3) a clone target dir: the join of it and
\* the workdir less one leading "./"; (4) otherwise the workdir unchanged.
\* Workdir "./s" under clone target dir "/r" resolves to "/r/s".
C12_WorkdirPolicy ==
    rpc = "create_pod" =>
        /\ working_dir = WorkdirPolicy(workdir, clone_target_dir, source, load_source_on_run)
        /\ (workdir = RelWorkdir /\ clone_target_dir = TargetDir /\ ~load_source_on_run)
              => working_dir = <<"/", "r", "/", "s">>
        /\ (source # "" /\ load_source_on_run) => working_dir = None

C12_Witness ==
    /\ rpc = "create_pod"
    /\ workdir = <<".", "/", ".", "/">>
    /\ clone_target_dir = TargetDir
    /\ ~load_source_on_run
    /\ working_dir = <<"/", "r", "/", ".", "/">>

\* C13: deploy() never skips the build on the client side: a deploy() call
\* against a remote API has made no build request before db.remote_builder
\* is called and exactly one from then on, whatever there is to build and
\* whatever the request answers.
C13_OneBuildRequest ==
    (op = "deploy" /\ remote) => nbuild = (IF pc = "submit" THEN 0 ELSE 1)

C13_Witness ==
    /\ DeployEnded /\ remote
    /\ hadBase /\ base_image = BaseImage
    /\ source = "" /\ ~commands
    /\ resolve_with_mlrun("None", build_with_mlrun, base_image)
    /\ nbuild = 1

\* C14 (as claimed): in the build watch a backend failure on the initial
\* status fetch surfaces as the 'function or build process not found' error
\* (ValueError) and a failure of a later poll propagates unchanged; in both
\* cases deploy() makes no further backend call and returns no value.
C14_SeedFailureIsNotFound ==
    [][failure'.at \in {"seed", "poll", "probe", "refetch"} =>
        /\ pc' = "idle"
        /\ ret' = (IF failure'.at = "seed" THEN "ValueError" ELSE failure'.kind)
        /\ failure.at # "" => (req' = req /\ nbuild' = nbuild)]_vars

\* C14 (amended): in the build watch a RunDBError of the initial status
\* fetch surfaces as the 'function or build process not found' error
\* (ValueError); any other error of the initial fetch, and every error of a
\* later status call, propagates unchanged; in all cases deploy() makes no
\* further backend call and returns no value.
C14_OnlyRunDBErrorIsNotFound ==
    [][failure'.at \in {"seed", "poll", "probe", "refetch"} =>
        /\ pc' = "idle"
        /\ ret' = (IF failure'.at = "seed" /\ failure'.kind = "RunDBError"
                   THEN "ValueError" ELSE failure'.kind)
        /\ ret' \notin {"True", "False"}
        /\ failure.at # "" => (req' = req /\ nbuild' = nbuild)]_vars

C14_Witness ==
    /\ DeployEnded
    /\ failure = [at |-> "seed", kind |-> "RunDBError"]
    /\ ret = "ValueError"
    /\ req.kind = "none"
    /\ nbuild = 1

\* C15 (as claimed): when create_pod raises, the caller receives RunError
\* carrying the backend's message; no error raised by create_pod reaches the
\* caller unwrapped.
C15_EveryErrorWrapped ==
    (RunEnded /\ create_exc # NoResult) =>
        rret = [kind |-> "RunError", msg |-> create_exc.msg]

\* C15 (amended): when the backend rejects the pod (create_pod raises
\* ApiException), the caller receives RunError carrying the backend's
\* message and never the ApiException itself; an error of any other kind
\* raised by create_pod reaches the caller unchanged.
C15_ApiExceptionWrapped ==
    (RunEnded /\ create_exc # NoResult) =>
        /\ rret.kind # "ApiException"
        /\ rret = (IF create_exc.kind = "ApiException"
                   THEN [kind |-> "RunError", msg |-> create_exc.msg]
                   ELSE create_exc)

C15_Witness ==
    /\ RunEnded
    /\ create_exc = [kind |-> "ApiException", msg |-> "quota exceeded"]
    /\ rret = [kind |-> "RunError", msg |-> "quota exceeded"]

\* A run submission that ended with a pod created.
Submitted == RunEnded /\ create_exc = NoResult

\* C16 (as claimed): a successful submission returns the pod identity (name,
\* namespace) the backend assigned and sets the run's status state to
\* 'running', with a status line naming the pod.
C16_ReturnsPodIdentity ==
    Submitted =>
        /\ rret = [kind |-> "PodIdentity", msg |-> <<pod_name, "namespace">>]
        /\ run_state = "running"
        /\ status_text = StatusLine(pod_name)

\* C16 (amended): a successful submission returns None, not the pod
\* identity; it leaves the run's status state as it was and sets the status
\* text to the line 'Job is running in the background, pod: <name>' with the
\* name the backend assigned (the namespace is dropped).
C16_ReturnsNoneWithStatusLine ==
    Submitted =>
        /\ rret = [kind |-> "None", msg |-> ""]
        /\ run_state = "created"
        /\ pod_name \in PodNames
        /\ status_text = <<"Job is running in the background, pod: ", pod_name>>

C16_Witness ==
    /\ Submitted
    /\ pod_name = "pod-name"
    /\ status_text = <<"Job is running in the background, pod: ", "pod-name">>
    /\ text_before = <<"submitted">>

\* C17: a run submission calls create_pod at most once: once when it
\* succeeds and once when it is rejected (no retry); after a rejection the
\* status text is as it was before the call and no pod exists; the call
\* returns with the pod still in its first phase, without waiting for it.
C17_CreatePodOnce ==
    [][/\ ncreate' <= 1
       /\ RunEnded' => ncreate' = 1
       /\ (RunEnded' /\ create_exc' # NoResult) =>
              (status_text' = text_before' /\ pod_name' = "" /\ pod_phase' = "none")
       /\ (rpc = "create_pod" /\ Submitted') => pod_phase' = "Pending"]_vars

C17_Witness ==
    /\ RunEnded
    /\ create_exc.kind = "ApiException"
    /\ ncreate = 1
    /\ text_before = <<"submitted">>
    /\ status_text = <<"submitted">>

\* The watch loop of the current deploy call is running.
InWatch == pc \in {"seed", "loop", "poll", "probe", "refetch", "return"}

\* A status call of the watch loop is answered: one of the four
\* get_builder_status calls of _build_watch (256, 271, 274, 276) returns,
\* whatever it reports.
WatchFetch ==
    \/ build_watch_seed
    \/ build_watch_poll
    \/ build_watch_probe
    \/ build_watch_refetch

\* The watch loop never gives up on its own, polls after a sleep only, and
\* ends once the backend's build is over.
WatchLoopRuns ==
    /\ [][(InWatch /\ pc' = "idle" /\ failure'.at = "") => state \notin WatchStates]_vars
    /\ [][(pc' \in {"poll", "probe"} /\ pc' # pc) => pc = "loop"]_vars
    /\ (InWatch /\ bstate \in {"ready", "error"}) ~> (pc = "idle")

\* C18 (as claimed): if the backend eventually reports a state outside
\* {pending, running}, deploy(watch=true) terminates; the loop exits at the
\* first poll that observes such a state and makes no backend call after it;
\* while the backend reports pending or running the loop keeps polling, one
\* sleep before each poll, and never gives up on its own.
C18_NoCallAfterFinalState ==
    /\ WatchLoopRuns
    /\ [][(WatchFetch /\ pc # "seed") => state \in WatchStates]_vars

\* C18 (amended): as claimed, except that with show_on_failure set the
\* status probe that observes 'error' is followed by one more backend call,
\* the re-read of the log, before the loop exits; no other backend call
\* follows the first observation of a state outside {pending, running}.
C18_OnlyRereadAfterFinalState ==
    /\ WatchLoopRuns
    /\ [][(WatchFetch /\ pc # "seed") =>
            \/ state \in WatchStates
            \/ pc = "refetch" /\ show_on_failure /\ state = "error" /\ req.kind = "probe"]_vars

C18_Witness ==
    /\ DeployEnded /\ watch
    /\ req.kind = "poll" /\ req.iter = 2
    /\ state = "ready"
    /\ ret = "True"

\* C19: with two functions whose deploy(), is_deployed() and run calls
\* interleave arbitrarily, a step of one function, or of the backend on its
\* build, leaves the other function (spec.image, base_image,
\* clone_target_dir, status.state, log offset) and the other's build record
\* as they were.
C19_NoSharedState ==
    [][\A f \in Funcs : actor' # f => (fns'[f] = fns[f] /\ builds'[f] = builds[f])]_vars

C19_Witness ==
    /\ fns["f1"].pc = "poll" /\ fns["f1"].offset = 2 /\ fns["f1"].state = "running"
    /\ fns["f2"].pc = "loop" /\ fns["f2"].offset = 0 /\ fns["f2"].state = "error"
    /\ fns["f2"].base_image = BackendBase
    /\ actor = "f1"

\* C20 (as claimed): when pack() or unpack() of the default packager is
\* given arguments that are not parameters of the selected method (and no
\* mandatory argument is missing), it logs a warning and proceeds: the
\* operation completes, with the unexpected arguments ignored.
C20_UnexpectedArgumentsIgnored ==
    pk_warned =>
        /\ pk_result = "completed"
        /\ pk_passed = pk_arguments \cap
              Names(Parameters((IF pk_op = "pack" THEN "pack_" ELSE "unpack_") \o
                               (IF pk_artifact_type = "None" THEN "object"
                                ELSE pk_artifact_type)))

\* C21: is_deployed() answers true without a backend call when spec.image
\* is set; otherwise it makes one status probe and answers true iff
\* afterwards spec.image is set or status.state is 'ready'.
C21_ProbeOnlyWithoutImage ==
    [][is_deployed =>
        /\ image # "" => (probe' = "none" /\ ret' = "True" /\ UNCHANGED <<image, state>>)
        /\ image = "" =>
            /\ probe' \in {"ok", "raised", "noop"}
            /\ ret' = "True" <=> (image' # "" \/ state' = "ready")
            /\ ret' \in {"True", "False"}]_vars

C21_Witness ==
    /\ op = "is_deployed" /\ ~repeat
    /\ probe = "ok"
    /\ image = BuiltImage
    /\ state = "running"
    /\ ret = "True"

\* C22: when deploy() submits the build request, status.state has been
\* reset to empty and, with a base image configured, spec.image is empty;
\* with no base image configured spec.image is what it was before the call.
C22_ResetBeforeSubmit ==
    /\ [](pc = "submit" => (state = "" /\ (hadBase => image = "")))
    /\ [][(DeployStart /\ base_image = "") => image' = image]_vars

C22_Witness ==
    /\ pc = "submit"
    /\ hadBase /\ image = "" /\ state = ""
    /\ bstate = "ready" /\ bimage = BuiltImage

\* C23: when the build request returns, ready or not, status.state,
\* spec.image and spec.clone_target_dir are the values of the response, empty
\* ones included; build.base_image keeps its local value when it has one and
\* takes the response's value otherwise.
C23_ResponseWrittenBack ==
    [][\A a \in Answers :
          deploy_submit_answer(a.st, a.img, a.rbase, a.rdir, a.rdy) =>
              /\ state' = a.st
              /\ image' = a.img
              /\ clone_target_dir' = a.rdir
              /\ base_image' = (IF base_image # "" THEN base_image ELSE a.rbase)]_vars

C23_Witness ==
    /\ op = "deploy" /\ pc = "idle" /\ nbuild = 1 /\ failure.at = ""
    /\ ~watch /\ ret = "False"
    /\ state = "pending"
    /\ image = ""
    /\ source = SourceUrl /\ clone_target_dir = None
    /\ base_image = OldImage

\* ---------------------------------------------------------------- the with_mlrun option
\* deploy() called with each with_mlrun argument on functions with each
\* build.with_mlrun and each kind of base image, against a remote API and
\* without watching the build.
OptionValues == {"None", "True", "False"}

DeployWithOption == \E wm \in OptionValues : deploy_start(FALSE, FALSE, FALSE, wm)

OptionInit ==
    /\ image \in {"", OldImage}
    /\ base_image \in {"", BaseImage, BackendBase, RegistryBase}
    /\ state = ""
    /\ clone_target_dir = None
    /\ source \in {"", SourceUrl}
    /\ workdir = None
    /\ load_source_on_run = FALSE
    /\ default_handler = ""
    /\ commands \in BOOLEAN
    /\ remote = TRUE
    /\ NoCallYet
    /\ build_with_mlrun \in OptionValues
    /\ build_requirements \in BOOLEAN
    /\ build_extra \in BOOLEAN
    /\ NoRunYet
    /\ spec_env = <<>>
    /\ NoOthers

OptionNext ==
    \/ DeployWithOption /\ UNCHANGED asideVars
    \/ deploy_submit /\ UNCHANGED asideVars
    \/ deploy_submit_raises /\ UNCHANGED asideVars

OptionSpec == OptionInit /\ [][OptionNext]_vars

\* ---------------------------------------------------------------- the build configuration
\* build_config() called with each combination of its arguments given or
\* left out, on a function that has an image or none, before deploy()
\* calls that do not watch the build.
BuildConfigAny ==
    \E base \in {"", BaseImage}, cmds \in BOOLEAN, src \in {"", SourceUrl},
       ext \in BOOLEAN, on_run \in BOOLEAN, wm \in OptionValues, reqs \in BOOLEAN,
       prepare \in BOOLEAN :
        build_config(base, cmds, src, ext, on_run, wm, reqs, prepare)

ConfigInit ==
    /\ image \in {"", OldImage}
    /\ base_image = ""
    /\ state = ""
    /\ clone_target_dir = None
    /\ source = ""
    /\ workdir = None
    /\ load_source_on_run = FALSE
    /\ default_handler = ""
    /\ commands = FALSE
    /\ remote \in BOOLEAN
    /\ NoCallYet
    /\ build_with_mlrun = "None"
    /\ build_requirements = FALSE
    /\ build_extra = FALSE
    /\ NoRunYet
    /\ spec_env = <<>>
    /\ NoOthers

ConfigNext ==
    \/ BuildConfigAny /\ UNCHANGED asideVars
    \/ DeployWithOption /\ UNCHANGED asideVars
    \/ deploy_submit_raises /\ UNCHANGED asideVars

ConfigSpec == ConfigInit /\ [][ConfigNext]_vars

\* C24: the with_mlrun sent with the build request is the deploy() argument
\* when it is not None, else build.with_mlrun when that is not None, else
\* true exactly when the function had a base image at the call that neither
\* starts with 'mlrun/' nor contains '/mlrun/'.
C24_WithMlrunPrecedence ==
    op = "deploy" =>
        /\ arg_with_mlrun # "None" => (sent_with_mlrun <=> arg_with_mlrun = "True")
        /\ (arg_with_mlrun = "None" /\ build_with_mlrun # "None") =>
               (sent_with_mlrun <=> build_with_mlrun = "True")
        /\ (arg_with_mlrun = "None" /\ build_with_mlrun = "None") =>
               (sent_with_mlrun <=> (hadBase /\ base_image \in {OldImage, BaseImage, BuiltImage}))

C24_Witness ==
    /\ op = "deploy" /\ nbuild = 1
    /\ arg_with_mlrun = "None"
    /\ build_with_mlrun = "False"
    /\ base_image = BaseImage
    /\ ~sent_with_mlrun

\* C25: under show_on_failure, log text is printed only with status.state
\* 'error': a deploy whose output holds log text has the function in state
\* 'error', and each print of log text is made with the state just fetched
\* being 'error'; a watch that ends in another state printed no log text.
C25_PrintsOnlyOnError ==
    /\ []((op = "deploy" /\ show_on_failure /\ LogText(printed) # <<>>) => state = "error")
    /\ [][(show_on_failure /\ Len(LogText(printed')) > Len(LogText(printed))) =>
              state' = "error"]_vars

C25_Witness ==
    /\ WatchEnded /\ show_on_failure
    /\ state = "ready"
    /\ blen = MaxLog
    /\ req.kind = "probe"
    /\ printed = <<NL>>

\* ---------------------------------------------------------------- the pod's env
\* Env entries: two of them share the name A.
MaxEnv == 2
EnvEntries == {[name |-> "A", value |-> "1"], [name |-> "A", value |-> "2"],
               [name |-> "B", value |-> "1"]}

\* The env lists of at most n entries.
Envs(n) == UNION {[1..k -> EnvEntries] : k \in 0..n}

\* Runs that inject env entries, submitted for functions that declare
\* some, in projects with no secret, one or two: the env name of the
\* secret A is the name of declared entries, that of S is not.
RunStartWithEnv ==
    \E extra \in Envs(MaxEnv), secrets \in {<<>>, <<"S">>, <<"A", "S">>} :
        run_start(FALSE, None, extra, secrets)

PodInit ==
    /\ image = OldImage
    /\ base_image = ""
    /\ state = ""
    /\ clone_target_dir = None
    /\ source = ""
    /\ workdir = None
    /\ load_source_on_run = FALSE
    /\ default_handler = ""
    /\ commands = FALSE
    /\ remote = TRUE
    /\ NoCallYet
    /\ build_with_mlrun = "None"
    /\ build_requirements = FALSE
    /\ build_extra = FALSE
    /\ NoRunYet
    /\ spec_env \in Envs(MaxEnv)
    /\ NoOthers

PodNext ==
    \/ RunStartWithEnv /\ UNCHANGED <<twoVars, packVars>>
    \/ run_create_pod /\ UNCHANGED <<twoVars, packVars>>
    \/ run_create_pod_raises /\ UNCHANGED <<twoVars, packVars>>
    \/ PodAdvance /\ UNCHANGED <<twoVars, packVars>>

PodSpec == PodInit /\ [][PodNext]_vars

DeployedAskedAfterSource == is_deployed /\ op = "with_source_archive"

\* C27: with_source_archive() with pull_at_runtime false leaves spec.image
\* empty and base_image equal to the previous base_image if one was set,
\* else to the previous spec.image, so that a function that had an image or
\* a base image still has a base image; the is_deployed() call that follows
\* calls the backend's status before it answers.
C27_BuildTimeSourceKeepsReference ==
    /\ [][(WithSourceArchive /\ ~load_source_on_run') =>
            /\ image' = ""
            /\ base_image # "" => base_image' = base_image
            /\ base_image = "" => base_image' = image
            /\ (image # "" \/ base_image # "") => base_image' # ""]_vars
    /\ [][(DeployedAskedAfterSource /\ ~load_source_on_run) =>
            /\ probe' \in {"ok", "raised", "noop"}
            /\ ret' = "True" => (image' # "" \/ state' = "ready")]_vars

C27_Witness ==
    /\ op = "with_source_archive"
    /\ ~load_source_on_run
    /\ state = "ready" /\ bimage = BuiltImage
    /\ image = ""
    /\ base_image = BaseImage

\* C28: with_source_archive() with pull_at_runtime true on a function with a
\* base image, no build commands and no image makes the base image the
\* image, and the is_deployed() call that follows answers true without a
\* backend call and without a build; with build commands or with an image
\* already set, spec.image and base_image stay as they were.
C28_RunTimeSourceUsesBaseImage ==
    /\ [][(WithSourceArchive /\ load_source_on_run') =>
            /\ (base_image # "" /\ ~commands /\ image = "") =>
                   (image' = base_image /\ base_image' = base_image)
            /\ (commands \/ image # "") => UNCHANGED <<image, base_image>>]_vars
    /\ [][(DeployedAskedAfterSource /\ load_source_on_run /\ image # "") =>
            /\ probe' = "none" /\ ret' = "True"
            /\ UNCHANGED <<image, state, beVars>>]_vars

C28_Witness ==
    /\ op = "is_deployed" /\ ~repeat
    /\ load_source_on_run /\ source = SourceUrl
    /\ ~commands
    /\ image = BaseImage /\ base_image = BaseImage
    /\ probe = "none" /\ ret = "True"
    /\ bstate = "none" /\ state = ""

\* ---------------------------------------------------------------- source, then run
\* with_source_archive() called between runs, with and without a source, a
\* workdir and a target dir, on the functions runs are submitted for.
WithSourceArchiveAny ==
    /\ rpc = "idle"
    /\ \E src \in {"", SourceUrl}, wd \in {None, RelWorkdir}, target_dir \in {None, TargetDir},
          pull \in BOOLEAN :
        with_source_archive(src, wd, "", pull, target_dir)

SourceRunNext ==
    \/ WithSourceArchiveAny /\ UNCHANGED asideVars
    \/ (\E secrets \in {<<>>, <<"S">>} : run_start(FALSE, None, <<>>, secrets))
          /\ UNCHANGED <<twoVars, packVars>>
    \/ run_create_pod /\ UNCHANGED <<twoVars, packVars>>

SourceRunSpec == RunInit /\ [][SourceRunNext]_vars

\* C29: a run submitted after a with_source_archive() call that gave a
\* source and pull_at_runtime true gets no working directory, whatever the
\* workdir and the clone target dir are; a run of a function without a
\* source, or with load_source_on_run false, gets the working directory of
\* the remaining rules, also when load_source_on_run is true.
C29_DeferredOnlyWithSource ==
    /\ [][(RunStart /\ op = "with_source_archive" /\ load_source_on_run /\ source # "") =>
            working_dir' = None]_vars
    /\ [][(RunStart /\ ~(load_source_on_run /\ source # "")) =>
            working_dir' = WorkdirPolicy(workdir, clone_target_dir, source, FALSE)]_vars

C29_Witness ==
    /\ rpc = "create_pod"
    /\ op = "with_source_archive"
    /\ source = SourceUrl /\ load_source_on_run
    /\ workdir = <<"/", "s">>
    /\ clone_target_dir = TargetDir
    /\ working_dir = None

\* A deploy call that failed: the build request raised, or the watched
\* build ended not ready and deploy raised 'Deploy failed'.
FailedSubmit == DeployEnded /\ failure.at = "submit"
FailedBuild == WatchEnded /\ ret = "MLRunRuntimeError"

\* C30 (as claimed): after a deploy() whose build request raised or whose
\* build ended not ready, the function is not reported deployed from its
\* local state: spec.image is empty and status.state is not 'ready'.
C30_FailedDeployNotDeployedLocally ==
    (FailedSubmit \/ FailedBuild) => ~is_deployed_answer(image, state)

\* C30 (amended): deploy() restores nothing on failure.  When the build
\* request raises, the reset of the start stays: status.state is empty and,
\* for a function with a base image, spec.image is empty, so that the next
\* is_deployed() asks the backend and answers true only on its answer; a
\* function without a base image keeps its spec.image.  When the build ends
\* not ready, status.state is 'error' and spec.image is the image the
\* backend reported, set or not.
C30_NothingRestoredOnFailure ==
    /\ [](FailedSubmit => (state = "" /\ (hadBase => image = "")))
    /\ [](FailedBuild => (state = "error" /\ image = bimage))
    /\ [][deploy_submit_raises => UNCHANGED <<image, base_image, state>>]_vars
    /\ [][(is_deployed /\ FailedSubmit /\ hadBase) =>
            (probe' # "none" /\ (ret' = "True" => probe' = "ok"))]_vars

C30_Witness ==
    /\ FailedSubmit
    /\ hadBase /\ base_image = BaseImage
    /\ bstate = "ready" /\ bimage = BuiltImage
    /\ image = "" /\ state = ""

\* ---------------------------------------------------------------- a state the watch does not know
\* The backend leaves a build without a state (the status carries none) or
\* in a state the client has no name for.
BackendOddState ==
    /\ bstate \in WatchStates
    /\ bstate' \in {"", "unknown"}
    /\ UNCHANGED <<fnVars, pc, op, argVars, ready, ret, logVars, probe, repeat, bimage, blen>>

OddStateNext ==
    \/ DeployStart /\ UNCHANGED asideVars
    \/ deploy_submit /\ UNCHANGED asideVars
    \/ deploy_submit_raises /\ UNCHANGED asideVars
    \/ build_watch_seed /\ UNCHANGED asideVars
    \/ build_watch_sleep /\ UNCHANGED asideVars
    \/ build_watch_poll /\ UNCHANGED asideVars
    \/ build_watch_probe /\ UNCHANGED asideVars
    \/ build_watch_refetch /\ UNCHANGED asideVars
    \/ build_watch_exit /\ UNCHANGED asideVars
    \/ build_watch_return /\ UNCHANGED asideVars
    \/ build_watch_raises /\ UNCHANGED asideVars
    \/ BackendAdvance /\ UNCHANGED asideVars
    \/ BackendLog /\ UNCHANGED asideVars
    \/ BackendResolveImage /\ UNCHANGED asideVars
    \/ BackendOddState /\ UNCHANGED asideVars

OddStateSpec == WatchInit /\ [][OddStateNext]_vars

\* C31: when the seed fetch leaves the function in a state other than
\* 'pending', 'running' and 'ready' (none, 'error', an unknown one), the
\* next steps of the deploy call end it with 'Deploy failed': the loop test
\* fails, the closing newline is printed and the call raises; the loop body
\* is not entered and no status call follows the seed fetch.
C31_OddSeedStateFailsDeploy ==
    [][(op = "deploy" /\ pc \in {"loop", "return"} /\ req.kind = "seed"
          /\ state \notin (WatchStates \cup {"ready"}) /\ pc' # pc) =>
          /\ pc' = (IF pc = "loop" THEN "return" ELSE "idle")
          /\ pc' = "idle" => ret' = "MLRunRuntimeError"
          /\ UNCHANGED <<req, fetched, offset, state>>]_vars

C31_Witness ==
    /\ DeployEnded /\ watch
    /\ req.kind = "seed"
    /\ state = "unknown" /\ bstate = "unknown"
    /\ ret = "MLRunRuntimeError"

\* ---------------------------------------------------------------- two callers
\* Two threads hold the same function object: the first calls
\* deploy(watch=True), the other deploy(watch=False) or is_deployed().
\* Nothing serialises them, so every statement that reads or writes
\* self.spec or self.status is a step of its own, named by its line, and the
\* other caller's statements fall between any two of them.  With one caller
\* no write falls between the statements of a call, and the operations
\* above take them together.
Callers == {"first", "other"}

\* A caller between two calls.  resp is the answer of db.remote_builder in
\* hand, text and offset are the locals of _build_watch, got is the state
\* _build_watch returned; seen is the state the backend last reported for
\* the function during the call, raced tells that another deploy() wrote
\* the function during the call.
IdleCall ==
    [pc |-> "idle", op |-> "none", watch |-> FALSE, show_on_failure |-> FALSE,
     resp |-> [st |-> "none", img |-> "", rbase |-> "", rdir |-> None, rdy |-> FALSE],
     text |-> <<>>, offset |-> 0, got |-> "", printed |-> <<>>, ret |-> "None",
     seen |-> "none", raced |-> FALSE]

\* The calls after a statement of c's deploy() wrote the function: c moves
\* on to rec, and a call of another caller under way has been raced.
Wrote(c, rec) ==
    [d \in Callers |->
        IF d = c THEN rec
        ELSE IF calls[d].pc # "idle" THEN [calls[d] EXCEPT !.raced = TRUE]
        ELSE calls[d]]

\* What the steps of the callers leave alone.
sharedRest == <<source, workdir, load_source_on_run, default_handler, commands, remote,
                build_with_mlrun, build_requirements, build_extra, pc, op, argVars,
                ready, ret, logVars, probe, repeat, runVars, fns, builds, actor,
                packVars>>

\* A call starts, one for each caller.  kubejob.py 165-210: deploy() resolves its arguments, the
\* first caller watching, the other not.  kubejob.py 42-45: is_deployed()
\* answers at once when spec.image is set.
shared_call(c) ==
    /\ calls[c].pc = "idle"
    /\ calls[c].op = "none"
    /\ \/ \E sof \in (IF c = "first" THEN BOOLEAN ELSE {FALSE}) :
            calls' = [calls EXCEPT ![c] =
                        [IdleCall EXCEPT !.pc = "l211", !.op = "deploy",
                                         !.watch = EffectiveWatch(c = "first", FALSE),
                                         !.show_on_failure = sof]]
       \/ /\ c = "other"
          /\ calls' = [calls EXCEPT ![c] =
                        [IdleCall EXCEPT
                            !.pc = IF is_deployed_probes(image) THEN "l48" ELSE "idle",
                            !.op = "is_deployed",
                            !.ret = IF is_deployed_probes(image) THEN "None" ELSE "True"]]
    /\ UNCHANGED <<image, base_image, state, clone_target_dir, beVars>>

\* kubejob.py 211 and 212-214: the two statements of the reset (the db is a
\* remote API, 222).
shared_reset(c) ==
    LET me == calls[c] IN
    /\ me.pc \in {"l211", "l212"}
    /\ state' = IF me.pc = "l211" THEN ResetState(state) ELSE state
    /\ image' = IF me.pc = "l212" THEN ResetImage(base_image, image) ELSE image
    /\ calls' = Wrote(c, [me EXCEPT !.pc = IF me.pc = "l211" THEN "l212" ELSE "l224"])
    /\ UNCHANGED <<base_image, clone_target_dir, beVars>>

\* kubejob.py 224: db.remote_builder answers; the backend has a new build
\* record and the caller the response in hand.  The function has a base
\* image, which 233-235 keep whatever the response names: the responses
\* drawn name none.
shared_request(c) ==
    /\ calls[c].pc = "l224"
    /\ \E a \in {r \in Answers : r.rbase = ""} :
        /\ bstate' = a.st
        /\ bimage' = a.img
        /\ calls' = [calls EXCEPT ![c] = [@ EXCEPT !.pc = "l231", !.resp = a]]
    /\ blen' = 0
    /\ UNCHANGED <<image, base_image, state, clone_target_dir>>

\* kubejob.py 231, 232, 233-235, 236: the four statements that write the
\* response back, and after the last of them 238-250: the call ends or
\* enters _build_watch.
shared_write_back(c) ==
    LET me == calls[c]
        over == [me EXCEPT !.resp = IdleCall.resp]
    IN
    /\ me.pc \in {"l231", "l232", "l233", "l236"}
    /\ state' = IF me.pc = "l231" THEN WriteBack(state, me.resp.st) ELSE state
    /\ image' = IF me.pc = "l232" THEN WriteBack(image, me.resp.img) ELSE image
    /\ base_image' =
          IF me.pc = "l233" THEN KeepOrTake(base_image, me.resp.rbase) ELSE base_image
    /\ clone_target_dir' =
          IF me.pc = "l236" THEN WriteBack(clone_target_dir, me.resp.rdir)
          ELSE clone_target_dir
    /\ calls' = Wrote(c,
          CASE me.pc = "l231" -> [me EXCEPT !.pc = "l232"]
            [] me.pc = "l232" -> [me EXCEPT !.pc = "l233"]
            [] me.pc = "l233" -> [me EXCEPT !.pc = "l236"]
            [] OTHER ->
                 IF me.watch /\ ~me.resp.rdy THEN [over EXCEPT !.pc = "l256"]
                 ELSE [over EXCEPT !.pc = "idle",
                                   !.ret = DeployOutcome(me.watch, me.resp.rdy)])
    /\ UNCHANGED beVars

\* db.get_builder_status answers, at kubejob.py 256, 271, 274, 276 and, for
\* is_deployed(), 48: it writes the backend's state and image into the
\* function; the caller has the text in hand.
shared_status(c) ==
    LET me == calls[c]
        text == CASE me.pc = "l256" -> get_builder_status_text(0, TRUE)
                  [] me.pc = "l276" -> get_builder_status_text(me.offset, TRUE)
                  [] me.pc = "l274" ->
                         get_builder_status_text(RefetchOffset(me.offset), TRUE)
                  [] OTHER -> get_builder_status_text(0, FALSE)
        next == CASE me.pc = "l256" -> "l264"
                  [] me.pc = "l271" -> "l272"
                  [] me.pc = "l48" -> "l55"
                  [] OTHER -> "l277"
    IN
    /\ me.pc \in {"l256", "l271", "l274", "l276", "l48"}
    /\ bstate # "none"
    /\ state' = get_builder_status_state
    /\ image' = get_builder_status_image(image)
    /\ calls' = [d \in Callers |->
                    IF d = c THEN [me EXCEPT !.pc = next, !.text = text, !.seen = state']
                    ELSE IF calls[d].pc # "idle" THEN [calls[d] EXCEPT !.seen = state']
                    ELSE calls[d]]
    /\ UNCHANGED <<base_image, clone_target_dir, beVars>>

\* A backend call raises: deploy() ends with the error (224; 255-258 for the
\* first status call); is_deployed() swallows it (51-52).
shared_raises(c) ==
    LET me == calls[c] IN
    /\ me.pc \in {"l224", "l256", "l271", "l274", "l276", "l48"}
    /\ \E k \in FailureKinds :
        calls' = [calls EXCEPT ![c] =
                    IF me.pc = "l48" THEN [me EXCEPT !.pc = "l55"]
                    ELSE [me EXCEPT
                            !.pc = "idle", !.offset = 0,
                            !.ret = IF me.pc = "l224" THEN k
                                    ELSE WatchFailure(k, me.pc = "l256")]]
    /\ UNCHANGED <<image, base_image, state, clone_target_dir, beVars>>

\* kubejob.py 264-265 and 277-278: print_log reads status.state as it is
\* now and prints the text in hand; the offset moves on.
shared_print(c) ==
    LET me == calls[c] IN
    /\ me.pc \in {"l264", "l277"}
    /\ calls' = [calls EXCEPT ![c] =
                    [me EXCEPT !.pc = "l267",
                               !.printed = @ \o print_log(me.text, me.show_on_failure, state),
                               !.offset = NextOffset(@, me.text),
                               !.text = <<>>]]
    /\ UNCHANGED <<image, base_image, state, clone_target_dir, beVars>>

\* kubejob.py 267 and 272: the two tests of status.state.  The loop goes on
\* (268-271 or 276) or ends with print() (280); the probe is followed by the
\* re-read of the log (274) or not.
shared_test(c) ==
    LET me == calls[c] IN
    /\ me.pc \in {"l267", "l272"}
    /\ calls' = [calls EXCEPT ![c] =
          IF me.pc = "l272"
          THEN [me EXCEPT !.pc = IF state = "error" THEN "l274" ELSE "l277"]
          ELSE IF KeepsWatching(state)
               THEN [me EXCEPT !.pc = IF me.show_on_failure THEN "l271" ELSE "l276"]
               ELSE [me EXCEPT !.pc = "l281", !.printed = @ \o <<NL>>]]
    /\ UNCHANGED <<image, base_image, state, clone_target_dir, beVars>>

\* The end of a call.  kubejob.py 281: _build_watch returns status.state as
\* it is now; 245-250: deploy() writes that state back and returns or
\* raises.  kubejob.py 55-59: is_deployed() tests spec.image (55), then
\* status.state alone, which line 57 reads twice: for its truth, then for
\* the comparison with 'ready'.
shared_return(c) ==
    LET me == calls[c] IN
    /\ me.pc \in {"l281", "l246", "l55", "l57", "l57eq"}
    /\ state' = IF me.pc = "l246" THEN me.got ELSE state
    /\ calls' =
          CASE me.pc = "l281" ->
                 [calls EXCEPT ![c] = [me EXCEPT !.pc = "l246", !.got = state, !.offset = 0]]
            [] me.pc = "l246" ->
                 Wrote(c, [me EXCEPT !.pc = "idle",
                                     !.ret = DeployOutcome(me.watch, me.got = "ready")])
            [] me.pc = "l55" ->
                 [calls EXCEPT ![c] =
                    IF image # "" THEN [me EXCEPT !.pc = "idle", !.ret = "True"]
                    ELSE [me EXCEPT !.pc = "l57"]]
            [] me.pc = "l57" ->
                 [calls EXCEPT ![c] =
                    IF state # "" THEN [me EXCEPT !.pc = "l57eq"]
                    ELSE [me EXCEPT !.pc = "idle", !.ret = "False"]]
            [] OTHER ->
                 [calls EXCEPT ![c] =
                    [me EXCEPT !.pc = "idle", !.ret = BoolStr(state = "ready")]]
    /\ UNCHANGED <<image, base_image, clone_target_dir, beVars>>

\* A function with a base image and a remote API, and the two callers.
SharedInit ==
    /\ image = ""
    /\ base_image = BaseImage
    /\ state = ""
    /\ clone_target_dir = None
    /\ source = ""
    /\ workdir = None
    /\ load_source_on_run = FALSE
    /\ default_handler = ""
    /\ commands = FALSE
    /\ remote = TRUE
    /\ NoCallYet
    /\ build_with_mlrun = "None"
    /\ build_requirements = FALSE
    /\ build_extra = FALSE
    /\ NoRunYet
    /\ spec_env = <<>>
    /\ fns = <<>>
    /\ builds = <<>>
    /\ actor = ""
    /\ calls = [c \in Callers |-> IdleCall]
    /\ pk_op = ""
    /\ pk_artifact_type = ""
    /\ pk_arguments = {}
    /\ pk_warned = FALSE
    /\ pk_result = ""
    /\ pk_passed = {}

SharedNext ==
    \/ \E c \in Callers : shared_call(c) /\ UNCHANGED sharedRest
    \/ \E c \in Callers : shared_reset(c) /\ UNCHANGED sharedRest
    \/ \E c \in Callers : shared_request(c) /\ UNCHANGED sharedRest
    \/ \E c \in Callers : shared_write_back(c) /\ UNCHANGED sharedRest
    \/ \E c \in Callers : shared_status(c) /\ UNCHANGED sharedRest
    \/ \E c \in Callers : shared_raises(c) /\ UNCHANGED sharedRest
    \/ \E c \in Callers : shared_print(c) /\ UNCHANGED sharedRest
    \/ \E c \in Callers : shared_test(c) /\ UNCHANGED sharedRest
    \/ \E c \in Callers : shared_return(c) /\ UNCHANGED sharedRest
    \/ BackendAdvance /\ UNCHANGED asideVars
    \/ BackendLog /\ UNCHANGED asideVars
    \/ BackendResolveImage /\ UNCHANGED asideVars

SharedSpec == SharedInit /\ [][SharedNext]_vars

\* C32 (as claimed): a watched deploy raises 'Deploy failed' only when the
\* last state the backend reported for the function's build is 'error',
\* also when a second caller's deploy() or is_deployed() interleaves with
\* the watch.
C32_FailsOnlyOnReportedError ==
    (calls["first"].pc = "idle" /\ calls["first"].ret = "MLRunRuntimeError") =>
        calls["first"].seen = "error"

\* C32 (amended): a watched deploy raises 'Deploy failed' only when the
\* state it read at the end of its watch (281) is not 'ready'.  With
\* is_deployed() calls interleaved, and no other deploy(), that state is
\* the 'error' the backend reported: an is_deployed() writes only what the
\* backend reports.  With another deploy() interleaved the claim fails:
\* the other call's reset empties status.state (211) and its write-back
\* replaces it (231), so the first call can raise although the backend
\* reported no failed build; whenever it does, a statement of the other
\* deploy() wrote the function during the call.  During the call
\* status.state changes only to the state the backend reports, to the ''
\* of the other deploy's reset or to the state of its build response.
C32_FailsOnReportedErrorOrOverwrite ==
    /\ []((calls["first"].pc = "idle" /\ calls["first"].ret = "MLRunRuntimeError") =>
            /\ calls["first"].got # "ready"
            /\ calls["first"].seen = "error" \/ calls["first"].raced)
    /\ []((calls["first"].pc = "idle" /\ calls["first"].ret = "MLRunRuntimeError"
             /\ calls["other"].op # "deploy") =>
            (calls["first"].seen = "error" /\ calls["first"].got = "error"))
    /\ [][(calls["first"].pc # "idle" /\ calls'["first"].pc = calls["first"].pc
             /\ state' # state) =>
            \/ state' = bstate
            \/ calls["other"].pc = "l211" /\ state' = "" /\ calls'["first"].raced
            \/ calls["other"].pc = "l231" /\ state' = calls["other"].resp.st
                  /\ calls'["first"].raced]_vars
    /\ [][(shared_status("other") /\ calls["first"].pc # "idle") =>
            (state' = bstate /\ calls'["first"].raced = calls["first"].raced)]_vars
    /\ [][(calls["first"].pc = "l246" /\ calls'["first"].pc = "idle") =>
            calls'["first"].ret =
                (IF calls["first"].got = "ready" THEN "True" ELSE "MLRunRuntimeError")]_vars

\* The watch of the first caller returned 'error', which the backend
\* reported, while an is_deployed() call of the other caller is under way:
\* the first call is about to raise.
C32_Witness ==
    /\ calls["first"].pc = "l246" /\ calls["first"].got = "error"
    /\ ~calls["first"].raced
    /\ calls["first"].seen = "error"
    /\ calls["other"].op = "is_deployed" /\ calls["other"].pc = "l57eq"
    /\ state = "error" /\ bstate = "error"

\* C33: on a function whose db is not a remote API, deploy() ends at once
\* with no build request and no status call made; status.state is empty and
\* spec.image is cleared if a base image is set; it returned False when
\* neither watch nor is_kfp was given and raised 'Deploy failed' otherwise.
C33_LocalDbDeployMakesNoCall ==
    (op = "deploy" /\ ~remote) =>
        /\ pc = "idle"
        /\ nbuild = 0 /\ req = NoReq /\ failure = NoFailure /\ bstate = "none"
        /\ state = ""
        /\ hadBase => image = ""
        /\ ret = (IF argWatch \/ is_kfp THEN "MLRunRuntimeError" ELSE "False")

C33_Witness ==
    /\ op = "deploy" /\ ~remote
    /\ hadBase /\ image = ""
    /\ is_kfp /\ ~argWatch
    /\ ret = "MLRunRuntimeError"

\* C34 (as claimed): an artifact type is supported iff the class has both
\* its pack_ and its unpack_ method, so that neither pack() nor unpack() of
\* a type that is supported, and that is_packable() accepts, fails for want
\* of the method.
C34_SupportedTypesPackAndUnpack ==
    /\ \A t \in ArtifactTypes :
          t \in get_supported_artifact_types <=>
              (("pack_" \o t) \in Methods /\ ("unpack_" \o t) \in Methods)
    /\ (pk_op \in {"pack", "unpack"} /\ is_packable(pk_artifact_type)) =>
          pk_result # "AttributeError"

\* C34 (amended): the supported types are those with both a pack_ and an
\* unpack_ method, and 'result', which has pack_result and no unpack_result.
\* pack() of a supported type finds its method; unpack() finds it for every
\* supported type but 'result', for which it raises AttributeError.
C34_SupportedTypesButResultUnpack ==
    /\ \A t \in ArtifactTypes :
          t \in get_supported_artifact_types <=>
              \/ ("pack_" \o t) \in Methods /\ ("unpack_" \o t) \in Methods
              \/ t = "result"
    /\ (pk_op = "pack" /\ is_packable(pk_artifact_type)) => pk_result # "AttributeError"
    /\ (pk_op = "unpack" /\ is_packable(pk_artifact_type)) =>
          (pk_result = "AttributeError" <=>
              (IF pk_artifact_type = "None" THEN "object" ELSE pk_artifact_type) = "result")
    /\ (pk_op \in {"pack", "unpack"} /\ ~is_packable(pk_artifact_type)) =>
          pk_result = "AttributeError"

C34_Witness ==
    /\ pk_op = "unpack"
    /\ pk_artifact_type = "result"
    /\ is_packable(pk_artifact_type)
    /\ pk_arguments = {}
    /\ pk_result = "AttributeError"

====
